---- MODULE Spec2Model ----
(***************************************************************************)
(* The ownership manifest of src/manifest_manager.py (class                *)
(* ManifestManager): the in-memory manifest of the manager instance the    *)
(* process holds (main.py:1371, self._logic.manifest_mgr; a new instance   *)
(* replaces the earlier one), the class-level template EMPTY_MANIFEST      *)
(* whose inner dictionaries dict.copy() shares between all instances, and  *)
(* the persisted document and its temporary file under each game root.     *)
(***************************************************************************)
EXTENDS Integers, Sequences, FiniteSets, TLC

\* Longest file-name list handed to record_installation / check_conflicts.
MaxLen == 2
\* Budget of one behaviour after the first construction: every API call and
\* every crash between two calls takes one unit, a call in which an I/O step
\* fails or the process dies takes two.
MaxOps == 3

Pkgs == {"A", "B"}
Files == {"a", "b"}
Roots == {"r1", "r2"}

\* list[str] arguments: every sequence of file names, duplicates included.
FileLists == UNION {[1..n -> Files] : n \in 0..MaxLen}

---------------------------------------------------------------------------
\* Python dict operations on a TLA+ function with a dynamic domain.
EmptyMap == [k \in {} |-> k]

Put(d, k, v) == [x \in (DOMAIN d) \cup {k} |-> IF x = k THEN v ELSE d[x]]

Del(d, k) == [x \in (DOMAIN d) \ {k} |-> d[x]]

Range(s) == {s[i] : i \in DOMAIN s}

---------------------------------------------------------------------------
\* Files on disk.  kind: "absent" (no file), "partial" (a file opened for
\* writing whose JSON text is not complete), "garbage" (not JSON),
\* "nonobject" (JSON whose top level is not an object), "object".
\* modsKind / mapKind describe the value under "installed_mods" / "file_map":
\* "obj" (an object), "list" (a value that has a length but is not an
\* object: the empty list), "nolen" (null, a number, a boolean), "missing".
Doc(kind, mk, fk, im, fm) ==
    [kind |-> kind, modsKind |-> mk, mapKind |-> fk,
     installed_mods |-> im, file_map |-> fm]

Absent == Doc("absent", "none", "none", EmptyMap, EmptyMap)

Partial == Doc("partial", "none", "none", EmptyMap, EmptyMap)

Garbage == Doc("garbage", "none", "none", EmptyMap, EmptyMap)

NonObject == Doc("nonobject", "none", "none", EmptyMap, EmptyMap)

\* Corrupt documents: unparseable, a non-object top level, or a key present
\* whose value is not an object.
CorruptDocs ==
    {Garbage, NonObject} \cup
    ({Doc("object", mk, fk, EmptyMap, EmptyMap) :
         mk \in {"obj", "list", "nolen"}, fk \in {"obj", "list", "nolen"}}
     \ {Doc("object", "obj", "obj", EmptyMap, EmptyMap)})

\* Documents with a key missing (lines 83-86 add it).
IncompleteDocs ==
    ({Doc("object", mk, fk, EmptyMap, EmptyMap) :
         mk \in {"obj", "missing"}, fk \in {"obj", "missing"}}
     \ {Doc("object", "obj", "obj", EmptyMap, EmptyMap)})

---------------------------------------------------------------------------
VARIABLES
    EMPTY_MANIFEST, \* the class attribute: contents of its two inner dicts
    manager,        \* the ManifestManager instance the process holds
    disk,           \* root -> the document at <root>/sound/mod/.manifest.json
    temp,           \* root -> the file at <root>/sound/mod/.manifest.tmp
    ops,            \* units of MaxOps spent so far
    last,           \* the latest call: arguments, result, pre-state
    fs,             \* the file tree SkinsManager works on: path -> kind
    _cache,         \* SkinsManager._cache
    skins_call,     \* the latest SkinsManager call: arguments, outcome
    _window,        \* AppApi._window is bound
    _is_busy,       \* AppApi._is_busy
    _password_event,     \* AppApi._password_event is set
    _password_value,     \* AppApi._password_value
    _password_cancelled, \* AppApi._password_cancelled
    calls,          \* thread -> the entry point it runs and where it stands
    workers,        \* thread -> the worker its entry point started
    prompt          \* the password dialog of the front end

\* The state of ManifestManager and of its files.
manifest_vars == <<EMPTY_MANIFEST, manager, disk, temp, ops, last>>

\* The state of SkinsManager and of the tree under the game directory.
skins_vars == <<fs, _cache, skins_call>>

\* The state of AppApi, of its threads and of the password dialog.
api_vars == <<_window, _is_busy, _password_event, _password_value,
              _password_cancelled, calls, workers, prompt>>

vars == <<manifest_vars, skins_vars, api_vars>>

\* No instance: the process has not constructed one since it started.
NoManager ==
    [live |-> FALSE, root |-> "none", shared |-> FALSE,
     modsKind |-> "obj", mapKind |-> "obj",
     installed_mods |-> EmptyMap, file_map |-> EmptyMap]

\* What EMPTY_MANIFEST.copy() binds self.manifest to: a new outer dict whose
\* two values ARE the class attribute's inner dicts (a shallow copy).
TemplateCopy ==
    [shared |-> TRUE, modsKind |-> "obj", mapKind |-> "obj",
     installed_mods |-> EmptyMap, file_map |-> EmptyMap]

\* self.manifest as the instance sees it.
Manifest ==
    IF manager.shared
    THEN [modsKind |-> "obj", mapKind |-> "obj",
          installed_mods |-> EMPTY_MANIFEST.installed_mods,
          file_map |-> EMPTY_MANIFEST.file_map]
    ELSE [modsKind |-> manager.modsKind, mapKind |-> manager.mapKind,
          installed_mods |-> manager.installed_mods,
          file_map |-> manager.file_map]

\* In-place mutation of the two inner dicts self.manifest refers to.
StoreManifest(im, fm) ==
    IF manager.shared
    THEN /\ EMPTY_MANIFEST' = [installed_mods |-> im, file_map |-> fm]
         /\ UNCHANGED manager
    ELSE /\ manager' = [manager EXCEPT !.installed_mods = im,
                                       !.file_map = fm]
         /\ UNCHANGED EMPTY_MANIFEST

\* The process is gone: every instance and the class attribute with it.
ProcessDies ==
    /\ EMPTY_MANIFEST' = [installed_mods |-> EmptyMap, file_map |-> EmptyMap]
    /\ manager' = NoManager

\* The pre-state a call records in `last`.
Pre ==
    [installed_mods |-> Manifest.installed_mods,
     file_map |-> Manifest.file_map,
     disk |-> disk[manager.root]]

NoPre == [installed_mods |-> EmptyMap, file_map |-> EmptyMap, disk |-> Absent]

NoPrior == [op |-> "none", p |-> "none", F |-> <<>>, pre |-> NoPre]

NoCall ==
    [op |-> "none", p |-> "none", F |-> <<>>, ret |-> "none", res |-> <<>>,
     pre |-> NoPre, fault |-> "none", root |-> "none", prior |-> NoPrior]

\* The call that directly preceded op(p, ...) is kept with it when the two
\* belong together: a returned record_installation before check_conflicts
\* or before remove_mod_record of the same mod, and the construction before
\* a record_installation.
Chained(op, p) ==
    \/ /\ last.op = "record" /\ last.ret \in {"true", "false"}
       /\ op = "check" \/ (op = "remove" /\ last.p = p)
    \/ last.op = "construct" /\ op = "record"

\* op(p, F) that returned ret (check_conflicts: the answers res), or in
\* which the process died ("crash"); fault: the step that failed in it.
Call(op, p, F, ret, res, fault) ==
    [op |-> op, p |-> p, F |-> F, ret |-> ret, res |-> res, pre |-> Pre,
     fault |-> fault, root |-> manager.root,
     prior |-> IF Chained(op, p)
               THEN [op |-> last.op, p |-> last.p, F |-> last.F,
                     pre |-> last.pre]
               ELSE NoPrior]

\* The call takes its units of the budget; failed: an I/O step of it failed
\* or the process died in it.
Spend(failed) ==
    /\ ops + (IF failed THEN 2 ELSE 1) <= MaxOps
    /\ ops' = ops + (IF failed THEN 2 ELSE 1)

---------------------------------------------------------------------------
\* The file tree.  A path is the sequence of its components from the root of
\* the volume; a tree maps every path that exists to "dir" or, for a file,
\* to a tag naming where its bytes came from.
IsPrefix(p, q) == Len(p) <= Len(q) /\ SubSeq(q, 1, Len(p)) = p

Parent(p) == SubSeq(p, 1, Len(p) - 1)

Exists(t, p) == p = <<>> \/ p \in DOMAIN t

IsDir(t, p) == p = <<>> \/ (p \in DOMAIN t /\ t[p] = "dir")

\* p.iterdir()
Children(t, p) == {q \in DOMAIN t : Len(q) = Len(p) + 1 /\ IsPrefix(p, q)}

\* The tree without p and everything below it (shutil.rmtree, unlink, rmdir).
Without(t, p) == [q \in {x \in DOMAIN t : ~IsPrefix(p, x)} |-> t[q]]

\* The tree with the file p holding bytes tagged c (open(p, "wb") and write).
WithFile(t, p, c) == [q \in DOMAIN t \cup {p} |-> IF q = p THEN c ELSE t[q]]

\* p.mkdir(parents=True, exist_ok=True): raises, creating nothing, when p or
\* an ancestor of p is a file.
Mkdirs(t, p) ==
    LET ups == {SubSeq(p, 1, n) : n \in 1..Len(p)}
    IN  IF \E q \in ups : q \in DOMAIN t /\ t[q] # "dir"
        THEN [fs |-> t, ok |-> FALSE]
        ELSE [fs |-> [q \in DOMAIN t \cup ups |->
                         IF q \in DOMAIN t THEN t[q] ELSE "dir"],
              ok |-> TRUE]

\* The subtree at src relocated to dst, replacing a file at dst.
Rename(t, src, dst) ==
    LET moved == {q \in DOMAIN t : IsPrefix(src, q)}
        kept == {q \in DOMAIN t : ~IsPrefix(src, q) /\ q # dst}
        to(q) == dst \o SubSeq(q, Len(src) + 1, Len(q))
        from(x) == CHOOSE q \in moved : to(q) = x
    IN  [x \in kept \cup {to(q) : q \in moved} |->
            IF x \in kept THEN t[x] ELSE t[from(x)]]

\* shutil.move(src, dst); ok = FALSE when it raises an OSError.  bad: the
\* sources whose move the operating system refuses.  Onto an existing
\* directory the source is moved INSIDE it, under its own name, unless that
\* name is taken; a directory is not moved onto a file; a directory moved
\* where the parent is missing is copied there (copytree makes the
\* parents), a file is not.
shutil_move(t, src, dst, bad) ==
    IF src \in bad \/ ~Exists(t, src) \/ IsPrefix(src, dst)
    THEN [fs |-> t, ok |-> FALSE]
    ELSE IF IsDir(t, src) /\ Exists(t, dst) /\ ~IsDir(t, dst)
    THEN [fs |-> t, ok |-> FALSE]
    ELSE IF IsDir(t, dst)
    THEN LET real_dst == dst \o <<src[Len(src)]>>
         IN  IF Exists(t, real_dst) THEN [fs |-> t, ok |-> FALSE]
             ELSE [fs |-> Rename(t, src, real_dst), ok |-> TRUE]
    ELSE IF IsDir(t, Parent(dst))
    THEN [fs |-> Rename(t, src, dst), ok |-> TRUE]
    ELSE IF IsDir(t, src) /\ Mkdirs(t, Parent(dst)).ok
    THEN [fs |-> Rename(Mkdirs(t, Parent(dst)).fs, src, dst), ok |-> TRUE]
    ELSE [fs |-> t, ok |-> FALSE]

\* One statement after another: F applied to the value of v.
Let(v, F(_)) == CHOOSE r \in {F(x) : x \in {v}} : TRUE

\* Lines 641-666 without the merge: shutil.move for every source.
_move_tree_plain(t, src, dst, bad) ==
    Let(shutil_move(t, src, dst, bad),
        LAMBDA m : [fs |-> m.fs, raised |-> ~m.ok])

\* _move_tree(src, dst), lines 641-666.  Every OSError is caught and logged
\* (or passed over), so the call returns normally; raised tells whether one
\* occurred.
RECURSIVE _move_tree(_, _, _, _)
RECURSIVE _move_children(_, _, _, _, _)
_move_tree(t, src, dst, bad) ==
    IF IsDir(t, src)
    THEN IF Exists(t, dst)
         THEN \* lines 643-649: child by child, then src.rmdir()
              Let(_move_children(t, Children(t, src), src, dst, bad),
                  LAMBDA r :
                     IF Children(r.fs, src) = {}
                     THEN [fs |-> Without(r.fs, src), raised |-> r.raised]
                     ELSE [fs |-> r.fs, raised |-> TRUE])
         ELSE \* lines 651-655
              Let(shutil_move(t, src, dst, bad),
                  LAMBDA m : [fs |-> m.fs, raised |-> ~m.ok])
    ELSE \* lines 657-666
         Let(Mkdirs(t, Parent(dst)),
             LAMBDA d :
                IF ~d.ok THEN [fs |-> t, raised |-> TRUE]
                ELSE LET isfile == Exists(d.fs, dst) /\ ~IsDir(d.fs, dst)
                     IN  Let(shutil_move(IF isfile THEN Without(d.fs, dst)
                                         ELSE d.fs,
                                         src, dst, bad),
                             LAMBDA m :
                                [fs |-> m.fs,
                                 raised |-> ~m.ok
                                            \/ (Exists(d.fs, dst) /\ ~isfile)]))

\* for child in src.iterdir(): self._move_tree(child, dst / child.name)
_move_children(t, todo, src, dst, bad) ==
    IF todo = {} THEN [fs |-> t, raised |-> FALSE]
    ELSE LET child == CHOOSE c \in todo : TRUE
         IN  Let(_move_tree(t, child, dst \o <<child[Len(child)]>>, bad),
                 LAMBDA one :
                    Let(_move_children(one.fs, todo \ {child}, src, dst, bad),
                        LAMBDA rest :
                           [fs |-> rest.fs,
                            raised |-> one.raised \/ rest.raised]))

---------------------------------------------------------------------------
\* Archives.  A member is [name, dir, abs]: the components of its file name,
\* whether the name ends in "/" (ZipInfo.is_dir) and whether it starts with
\* "/".  The names are plain ASCII, which the cp437 / utf-8 round trip of
\* lines 553-559 leaves as they are.
Member(name, dir, abs) == [name |-> name, dir |-> dir, abs |-> abs]

\* The members archives are made of, in the order they are stored in.
Catalogue ==
    << Member(<<"w">>, TRUE, FALSE),
       Member(<<"..", "other", "o.dds">>, FALSE, FALSE),
       Member(<<"__MACOSX", "x.exe">>, FALSE, FALSE),
       Member(<<"w", "a.dds">>, FALSE, FALSE),
       Member(<<"..", "d">>, TRUE, FALSE),
       Member(<<"etc", "x.dds">>, FALSE, TRUE),
       Member(<<"desktop.ini">>, FALSE, FALSE),
       Member(<<"w", "x.exe">>, FALSE, FALSE),
       Member(<<"w", "Desktop.ini">>, FALSE, FALSE),
       Member(<<"README">>, FALSE, FALSE),
       Member(<<"b.blk">>, FALSE, FALSE),
       Member(<<"<b0>desktop.ini">>, FALSE, FALSE) >>

\* Most members in one archive.
MaxMembers == 2

\* The members picked by the set of indices S, in catalogue order.
RECURSIVE Pick(_)
Pick(S) ==
    IF S = {} THEN <<>>
    ELSE LET i == CHOOSE k \in S : \A l \in S : k <= l
         IN  <<Catalogue[i]>> \o Pick(S \ {i})

\* The member lists of the archives: up to MaxMembers distinct members.
MemberLists ==
    {Pick(S) : S \in {T \in SUBSET DOMAIN Catalogue :
                         Cardinality(T) <= MaxMembers}}

\* str.lower() on the names and suffixes that occur.
lower(c) ==
    CASE c = "Desktop.ini" -> "desktop.ini"
      [] c = "README" -> "readme"
      [] c = "__MACOSX" -> "__macosx"
      [] c = ".ZIP" -> ".zip"
      [] OTHER -> c

\* Path(filename).suffix
suffix(c) ==
    CASE c \in {"a.dds", "o.dds", "x.dds"} -> ".dds"
      [] c = "b.blk" -> ".blk"
      [] c = "x.exe" -> ".exe"
      [] c \in {"desktop.ini", "Desktop.ini", "<b0>desktop.ini",
                "<b064>esktop.ini"} -> ".ini"
      [] OTHER -> ""

\* ZipInfo.file_size
file_size(m) == IF m.dir \/ m.name[Len(m.name)] = "README" THEN 0 ELSE 1

\* "__MACOSX" in filename
has_macosx(name) == \E i \in DOMAIN name : name[i] = "__MACOSX"

\* "desktop.ini" in filename (the test is applied to the name as spelled)
has_desktop_ini(name) ==
    \E i \in DOMAIN name : name[i] \in {"desktop.ini", "<b0>desktop.ini"}

\* "desktop.ini" in filename.lower()
has_desktop_ini_lower(name) ==
    \E i \in DOMAIN name :
       lower(name[i]) \in {"desktop.ini", "<b0>desktop.ini"}

\* member.filename.encode("cp437").decode("utf-8"), else .decode("gbk"),
\* else member.filename (lines 553-559), on one component of a name.  ASCII
\* names decode to themselves.  "<b0>desktop.ini" stands for the stored
\* bytes B0 64 65 ... ("d" after a byte above 7F): they are not UTF-8, and
\* GBK reads B0 64 as one character, so the decoded name "<b064>esktop.ini"
\* no longer contains "desktop.ini".
decode(c) ==
    IF c = "<b0>desktop.ini" THEN "<b064>esktop.ini" ELSE c

\* filename: the decoded name of member m.
filename(m) == [i \in DOMAIN m.name |-> decode(m.name[i])]

\* The archive file at zip_path.  bad: zipfile.ZipFile raises BadZipFile.
ZipFile(exists, sfx, bad, members) ==
    [exists |-> exists, suffix |-> sfx, stem |-> "camo", bad |-> bad,
     members |-> members]

ZipFiles ==
    {ZipFile(TRUE, ".zip", FALSE, ms) : ms \in MemberLists} \cup
    {ZipFile(TRUE, ".ZIP", FALSE, <<Member(<<"b.blk">>, FALSE, FALSE)>>),
     ZipFile(TRUE, ".rar", FALSE, <<Member(<<"b.blk">>, FALSE, FALSE)>>),
     ZipFile(TRUE, ".zip", TRUE, <<>>),
     ZipFile(FALSE, ".zip", FALSE, <<>>)}

\* get_userskins_dir(game_path), line 72, for the game directory /G.
userskins_dir == <<"G", "UserSkins">>

\* Line 207: userskins_dir / zip_path.stem
target_dir(zip) == userskins_dir \o <<zip.stem>>

\* Line 220: userskins_dir / f".__tmp_extract__{target_name}"
tmp_dir(zip) ==
    userskins_dir \o
        <<CASE zip.stem = "camo" -> ".__tmp_extract__camo">>

---------------------------------------------------------------------------
\* What can go wrong in one import_skin_zip call: at most one step fails.
\* kind names the step, at the member (1-based) it concerns, 0 otherwise.
\*   "none"           nothing fails
\*   "no_callback"    nothing fails and progress_callback is None
\*   "mkdir_root"     line 200 raises OSError
\*   "rmtree_target"  line 212 raises OSError
\*   "disk_query"     stat() or shutil.disk_usage raises OSError (487, 495)
\*   "rmtree_stale"   line 223 raises OSError
\*   "mkdir_tmp"      line 228 raises OSError
\*   "cb_prepare", "cb_reconciled", "cb_done", "cb_entry", "cb_chunk"
\*                    the progress callback raises at line 234, 263, 273,
\*                    574, 619
\*   "mkdir_entry"    line 592 raises OSError
\*   "write"          line 599 / 604 raises OSError after the file was opened
\*   "mkdir_target"   line 250 / 256 raises OSError
\*   "move"           shutil.move raises for the staged member or a
\*                    directory holding it (lines 652, 664)
\*   "rmtree_cleanup" line 268 raises OSError
Fault(kind, at) == [kind |-> kind, at |-> at]

NoFault == Fault("none", 0)

Faults(zip) ==
    {Fault(k, 0) : k \in {"none", "no_callback", "mkdir_root",
                          "rmtree_target", "disk_query", "rmtree_stale",
                          "mkdir_tmp", "cb_prepare", "mkdir_target",
                          "cb_reconciled", "rmtree_cleanup", "cb_done"}}
    \cup {Fault(k, i) : k \in {"cb_entry", "cb_chunk", "mkdir_entry",
                               "write", "move"},
                        i \in 1..Len(zip.members)}

\* (target_dir / filename).resolve(): ".." steps up, a name that starts with
\* "/" replaces the directory it is joined to.
RECURSIVE resolve(_, _)
resolve(base, name) ==
    IF name = <<>> THEN base
    ELSE resolve(IF Head(name) = ".." THEN Parent(base)
                 ELSE base \o <<Head(name)>>,
                 Tail(name))

full_target_path(root, m) ==
    resolve(IF m.abs THEN <<>> ELSE root, filename(m))

\* Lines 580-585 with the commonpath test dropped: every member is inside.
is_inside_always(root, m) == TRUE

\* Lines 580-585: commonpath([full_target_path, target_root]) == target_root
is_inside(root, m) == IsPrefix(root, full_target_path(root, m))

\* Lines 536-546: the bytes of the file members the loop does not skip.
RECURSIVE total_bytes(_)
total_bytes(members) ==
    IF members = <<>> THEN 0
    ELSE LET m == Head(members)
         IN  (IF m.dir \/ has_macosx(m.name) \/ has_desktop_ini(m.name)
              THEN 0 ELSE file_size(m))
             + total_bytes(Tail(members))

\* One progress_callback(percent, message) invocation.
Report(pct, site, at) == [pct |-> pct, site |-> site, at |-> at]

\* The call sites of lines 574 and 619 are inside try / except Exception:
\* pass; those of lines 234, 263 and 273 are not.
guarded(site) == site \in {"entry", "chunk"}

\* progress_callback(...) at a call site: the report is made, and when the
\* callback raises outside a guarded site the exception leaves the caller.
invoke(x, report, raises) ==
    [x EXCEPT !.progress = Append(@, report),
              !.exc = IF raises /\ ~guarded(report.site) /\ @ = "none"
                      THEN "CallbackError" ELSE @]

\* The time tests of lines 567 and 609.  last_update starts at 0.0, so the
\* first test of an extraction passes; a later one passes when enough time
\* went by since the last report: always on a slow clock, never on a fast
\* one.
Clocks == {"slow", "fast"}

due(x, clock) == clock = "slow" \/ ~x.reported

\* Lines 564-577 for member i: the report per member.
report_member(x, i, zip, fault, clock) ==
    LET total_files == Len(zip.members)
        should_push == (i - 1 = 0) \/ ((i - 1) % 10 = 0) \/ (i = total_files)
    IN  IF fault.kind # "no_callback" /\ should_push /\ due(x, clock)
        THEN [invoke(x, Report(2 + ((i - 1) * 85) \div total_files,
                               "entry", i),
                     fault.kind = "cb_entry" /\ fault.at = i)
              EXCEPT !.reported = TRUE]
        ELSE x

\* Lines 590-595 for member i, a directory: a failing mkdir is logged.
extract_dir(x, i, path, fault) ==
    IF fault.kind = "mkdir_entry" /\ fault.at = i THEN x
    ELSE [x EXCEPT !.fs = Mkdirs(x.fs, path).fs]

\* Lines 597-626 for member i, a file: its bytes are one chunk, or none.
extract_file(x, i, path, parent, zip, fault, clock) ==
    LET m == zip.members[i]
        all == total_bytes(zip.members)
        bytes == IF all > 0 THEN x.extracted_bytes + file_size(m)
                 ELSE x.extracted_bytes
        pct == IF all > 0 THEN 2 + (bytes * 85) \div all
               ELSE 2 + ((i - 1) * 85) \div Len(zip.members)
    IN  IF ~parent.ok \/ IsDir(parent.fs, path)
        THEN [x EXCEPT !.exc = "SkinsImportError"]
        ELSE IF fault.kind = "write" /\ fault.at = i
        THEN [x EXCEPT !.fs = WithFile(parent.fs, path, "part"),
                       !.exc = "SkinsImportError"]
        ELSE IF file_size(m) = 0
        THEN [x EXCEPT !.fs = WithFile(parent.fs, path, "new")]
        ELSE IF fault.kind # "no_callback" /\ due(x, clock)
        THEN [invoke(x, Report(pct, "chunk", i),
                     fault.kind = "cb_chunk" /\ fault.at = i)
              EXCEPT !.fs = WithFile(parent.fs, path, "new"),
                     !.extracted_bytes = bytes,
                     !.reported = TRUE]
        ELSE [x EXCEPT !.fs = WithFile(parent.fs, path, "new"),
                       !.extracted_bytes = bytes]

\* Lines 548-626 for member i and the members after it.  x = [fs, progress,
\* reported, extracted_bytes, exc, extracted] is the state of the loop.
RECURSIVE extract_members(_, _, _, _, _, _)
extract_members(x, i, zip, root, fault, clock) ==
    IF i > Len(zip.members) \/ x.exc # "none" THEN x
    ELSE
    LET m == zip.members[i]
        path == full_target_path(root, m)
        member(x1) ==
            IF x1.exc # "none" \/ ~is_inside(root, m) THEN x1
            ELSE IF m.dir THEN extract_dir(x1, i, path, fault)
            ELSE Let(Mkdirs(x1.fs, Parent(path)),
                     LAMBDA parent :
                        extract_file(x1, i, path, parent, zip, fault, clock))
        rest(y) == extract_members(y, i + 1, zip, root, fault, clock)
    IN  IF has_macosx(filename(m)) \/ has_desktop_ini(filename(m))
        THEN rest(x)
        ELSE Let(report_member(x, i, zip, fault, clock),
                 LAMBDA x1 : Let(member(x1), rest))

\* _extract_zip_safely(zip_path, tmp_dir, progress_callback, 2, 85), lines
\* 526-631, from the caller's state x (its tree and the reports made so far).
_extract_zip_safely(x, zip, root, fault, clock) ==
    extract_members([x EXCEPT !.reported = FALSE, !.extracted_bytes = 0],
                    1, zip, root, fault, clock)

\* Lines 170-179: the file members the pre-scan holds against the archive.
ALLOWED_EXTENSIONS == {".dds", ".blk", ".tga"}

invalid_files(zip) ==
    {i \in DOMAIN zip.members :
        LET m == zip.members[i]
            ext == lower(suffix(m.name[Len(m.name)]))
        IN  /\ ~m.dir
            /\ ~(has_macosx(m.name) \/ has_desktop_ini_lower(m.name))
            /\ ext # "" /\ ext \notin ALLOWED_EXTENSIONS}

\* Lines 488-496 with the safety margin left out: required = zip_size * 3.
_check_disk_space_no_margin(space, fault) ==
    fault.kind # "disk_query" /\ space.free < space.zip_size * 3

\* Lines 486-503 with a failed query counted as too little space.
_check_disk_space_fail_closed(space, fault) ==
    fault.kind = "disk_query" \/ space.free < space.zip_size * 3 * 2

\* _check_disk_space, lines 486-503: TRUE when DiskSpaceError is raised.
\* space holds zip_size and free; a query that raises OSError is logged and the
\* check is passed over.
_check_disk_space(space, fault) ==
    LET estimated == space.zip_size * 3
        required == estimated * 2
    IN  fault.kind # "disk_query" /\ space.free < required

\* Lines 242-260: the staged top level, less the names left aside, moved
\* into target_dir.  The sources shutil.move refuses under a "move" fault
\* are the staged member and the directories above it.
reconcile(x, zip, fault) ==
    LET tmp == tmp_dir(zip)
        target == target_dir(zip)
        top_level == {q \in Children(x.fs, tmp) :
                         q[Len(q)] # "__MACOSX" /\ q[Len(q)] # "desktop.ini"}
        bad == IF fault.kind = "move"
               THEN {q \in DOMAIN x.fs :
                        /\ IsPrefix(q, full_target_path(tmp, zip.members[fault.at]))
                        /\ Len(q) > Len(tmp)}
               ELSE {}
        inner_dir == CHOOSE q \in top_level : TRUE
    IN  Let(Mkdirs(x.fs, target),
            LAMBDA made :
               IF fault.kind = "mkdir_target" \/ ~made.ok
               THEN [x EXCEPT !.exc = "SkinsImportError"]
               ELSE IF Cardinality(top_level) = 1 /\ IsDir(x.fs, inner_dir)
               THEN [x EXCEPT !.fs = _move_tree(made.fs, inner_dir, target,
                                                bad).fs]
               ELSE [x EXCEPT !.fs = _move_children(made.fs, top_level, tmp,
                                                    target, bad).fs])

\* self._cache: None, or the listing the latest scan stored.
NoCache == [set |-> FALSE, path |-> <<>>, items |-> {}]

\* The result of a scan: the names of the directories under UserSkins.
Listing(t) ==
    [set |-> TRUE, path |-> userskins_dir,
     items |-> {q[Len(q)] : q \in {d \in Children(t, userskins_dir) :
                                      IsDir(t, d)}}]

\* scan_userskins(game_path, force_refresh=force), lines 91-131.
scan_userskins(t, c, force) ==
    IF ~force /\ c.set /\ c.path = userskins_dir /\ Exists(t, c.path)
    THEN [cache |-> c, ret |-> c]
    ELSE IF ~Exists(t, userskins_dir)
    THEN [cache |-> c, ret |-> [set |-> FALSE, path |-> userskins_dir,
                                 items |-> {}]]
    ELSE [cache |-> Listing(t), ret |-> Listing(t)]

\* Lines 264-277: the finally clause, the last report and the result.
\* extracted: the tree as _extract_zip_safely left it, <<>> when it was not
\* called.  stages: the steps the call went through, by the names the
\* import's state machine gives them: "Validating" (lines 158-216),
\* "SpaceChecking" (218-230), "Extracting" (236-240), "Reconciling"
\* (242-260), then "Done" (return) or "Failed" (raise).
finish_keeping_cache(x, c, zip, fault) ==
    LET tmp == tmp_dir(zip)
        cleaned == IF Exists(x.fs, tmp) /\ fault.kind # "rmtree_cleanup"
                   THEN Without(x.fs, tmp) ELSE x.fs
        raised == x.exc = "none" /\ fault.kind = "cb_done" /\ ~guarded("done")
        exc == IF raised THEN "CallbackError" ELSE x.exc
    IN  [fs |-> cleaned,
         cache |-> c,
         ret |-> IF exc = "none" THEN "ok" ELSE exc,
         progress |-> IF x.exc = "none" /\ fault.kind # "no_callback"
                      THEN Append(x.progress, Report(100, "done", 0))
                      ELSE x.progress,
         staged |-> TRUE, extracted |-> x.extracted,
         stages |-> Append(x.stages,
                           IF exc = "none" THEN "Done" ELSE "Failed")]

finish(x, c, zip, fault) ==
    LET tmp == tmp_dir(zip)
        \* lines 264-270
        cleaned == IF Exists(x.fs, tmp) /\ fault.kind # "rmtree_cleanup"
                   THEN Without(x.fs, tmp) ELSE x.fs
        \* lines 272-273
        raised == x.exc = "none" /\ fault.kind = "cb_done" /\ ~guarded("done")
        exc == IF raised THEN "CallbackError" ELSE x.exc
    IN  [fs |-> cleaned,
         cache |-> IF exc = "none" THEN NoCache ELSE c,
         ret |-> IF exc = "none" THEN "ok" ELSE exc,
         progress |-> IF x.exc = "none" /\ fault.kind # "no_callback"
                      THEN Append(x.progress, Report(100, "done", 0))
                      ELSE x.progress,
         staged |-> TRUE, extracted |-> x.extracted,
         stages |-> Append(x.stages,
                           IF exc = "none" THEN "Done" ELSE "Failed")]

\* Lines 232-277: the try / finally around extraction and reconciliation,
\* and what follows it.  t: the tree with the staging directory made.
staged_import(t, c, zip, fault, clock) ==
    LET callback == fault.kind # "no_callback"
        x0 == [fs |-> t, progress |-> <<>>, reported |-> FALSE,
               extracted_bytes |-> 0, exc |-> "none", extracted |-> <<>>,
               stages |-> <<"Validating", "SpaceChecking">>]
        \* lines 233-234
        prepare == IF callback
                   THEN invoke(x0, Report(1, "preparing", 0),
                               fault.kind = "cb_prepare")
                   ELSE x0
        \* lines 236-240
        extract(x1) == IF x1.exc # "none" THEN x1
                       ELSE Let(_extract_zip_safely(x1, zip, tmp_dir(zip),
                                                    fault, clock),
                                LAMBDA y :
                                   [y EXCEPT !.extracted = y.fs,
                                             !.stages =
                                                Append(@, "Extracting")])
        \* lines 242-260
        arrange(x2) == IF x2.exc # "none" THEN x2
                       ELSE reconcile([x2 EXCEPT !.stages =
                                                    Append(@, "Reconciling")],
                                      zip, fault)
        \* lines 262-263
        reconciled(x3) == IF x3.exc = "none" /\ callback
                          THEN invoke(x3, Report(98, "reconciled", 0),
                                      fault.kind = "cb_reconciled")
                          ELSE x3
        end(x4) == finish(x4, c, zip, fault)
    IN  Let(Let(Let(Let(prepare, extract), arrange), reconciled), end)

\* Lines 159-162 with the suffix test dropped.
invalid_zip_path_missing_only(zip) == ~zip.exists

\* Lines 159-162: the zip_path that import_skin_zip refuses at once.
invalid_zip_path(zip) == ~zip.exists \/ lower(zip.suffix) # ".zip"

\* An import that ends before the staging directory is made, in the given
\* stage.
Raise(t, c, exc, stage) ==
    [fs |-> t, cache |-> c, ret |-> exc, progress |-> <<>>, staged |-> FALSE,
     extracted |-> <<>>,
     stages |-> IF stage = "SpaceChecking"
                THEN <<"Validating", "SpaceChecking", "Failed">>
                ELSE <<"Validating", "Failed">>]

\* import_skin_zip(zip_path, game_path, progress_callback, overwrite), lines
\* 158-277, on tree t with self._cache = c.
import_skin_zip(t, c, zip, overwrite, fault, space, clock) ==
    LET target == target_dir(zip)
        tmp == tmp_dir(zip)
        root == Mkdirs(t, userskins_dir)
        \* lines 208-216
        t2 == IF Exists(root.fs, target) THEN Without(root.fs, target)
              ELSE root.fs
        \* lines 221-225
        t3 == IF Exists(t2, tmp) /\ IsDir(t2, tmp)
                 /\ fault.kind # "rmtree_stale"
              THEN Without(t2, tmp) ELSE t2
        \* lines 227-230
        t4 == Mkdirs(t3, tmp)
    IN  IF invalid_zip_path(zip)
        THEN Raise(t, c, "ValueError", "Validating")
        ELSE IF zip.bad \/ invalid_files(zip) # {}
        THEN Raise(t, c, "ValueError", "Validating")
        ELSE IF fault.kind = "mkdir_root" \/ ~root.ok
        THEN Raise(t, c, "SkinsImportError", "Validating")
        ELSE IF Exists(root.fs, target) /\ ~overwrite
        THEN Raise(root.fs, c, "FileExistsError", "Validating")
        ELSE IF Exists(root.fs, target)
                /\ (fault.kind = "rmtree_target" \/ ~IsDir(root.fs, target))
        THEN Raise(root.fs, c, "SkinsImportError", "Validating")
        ELSE IF _check_disk_space(space, fault)
        THEN Raise(t2, c, "DiskSpaceError", "SpaceChecking")
        ELSE IF fault.kind = "mkdir_tmp" \/ ~t4.ok
        THEN Raise(t3, c, "SkinsImportError", "SpaceChecking")
        ELSE staged_import(t4.fs, c, zip, fault, clock)

---------------------------------------------------------------------------
\* The SkinsManager calls.  One behaviour holds one import, with a scan
\* before it and a scan after it at most.

\* What the import finds around it: the size of the archive, the free space
\* on the volume, and the clock.  Free space below the requirement at both
\* sizes, equal to it, and above it.
Surroundings ==
    {[zip_size |-> 1, free |-> 5, clock |-> "slow"],
     [zip_size |-> 2, free |-> 11, clock |-> "slow"],
     [zip_size |-> 1, free |-> 6, clock |-> "slow"],
     [zip_size |-> 2, free |-> 13, clock |-> "fast"]}

NoSkinsCall ==
    [op |-> "none", zip |-> ZipFile(FALSE, ".zip", FALSE, <<>>),
     overwrite |-> FALSE, fault |-> NoFault,
     space |-> [zip_size |-> 0, free |-> 0, clock |-> "slow"],
     ret |-> "none", progress |-> <<>>, staged |-> FALSE,
     extracted |-> <<>>, stages |-> <<>>, listing |-> NoCache,
     force |-> FALSE, after |-> "none",
     pre |-> [fs |-> <<>>, cache |-> NoCache]]

\* One call of import_skin_zip on an archive among zips: what it does to
\* the tree and to the manager's cache.
ImportCall(zips) ==
    /\ skins_call.op \in {"none", "scan"}
    /\ \E zip \in zips, overwrite \in BOOLEAN, space \in Surroundings :
          \E fault \in Faults(zip) :
             \E r \in {import_skin_zip(fs, _cache, zip, overwrite, fault,
                                       space, space.clock)} :
                 /\ fs' = r.fs
                 /\ _cache' = r.cache
                 /\ skins_call' =
                       [NoSkinsCall EXCEPT
                          !.op = "import", !.zip = zip,
                          !.overwrite = overwrite, !.fault = fault,
                          !.space = space, !.ret = r.ret,
                          !.progress = r.progress, !.staged = r.staged,
                          !.extracted = r.extracted,
                          !.stages = r.stages,
                          !.pre = [fs |-> fs, cache |-> _cache]]

Import_unlinking(zips) ==
    /\ ImportCall(zips)
    /\ disk' = [r \in Roots |-> Absent]
    /\ UNCHANGED <<EMPTY_MANIFEST, manager, temp, ops, last, api_vars>>

\* The call refers to nothing of the manifest manager or of AppApi.
Import(zips) ==
    /\ ImportCall(zips)
    /\ UNCHANGED <<manifest_vars, api_vars>>

ImportSkinZip == Import(ZipFiles)

ScanUserskins ==
    /\ skins_call.op \in {"none", "import"}
    /\ \E force \in BOOLEAN :
          LET r == scan_userskins(fs, _cache, force)
          IN  /\ _cache' = r.cache
              /\ skins_call' =
                    [NoSkinsCall EXCEPT
                       !.op = IF skins_call.op = "none" THEN "scan"
                              ELSE "rescan",
                       !.listing = r.ret,
                       !.force = force,
                       !.after = skins_call.ret,
                       !.pre = [fs |-> fs, cache |-> _cache]]
    /\ UNCHANGED <<fs, manifest_vars, api_vars>>

\* The trees an import can find: a game directory without UserSkins; a
\* package "camo" from an earlier import; the same with a staging directory
\* an earlier import left behind; another package only.
Tree(files) ==
    LET dirs == UNION {{SubSeq(f, 1, n) : n \in 1..(Len(f) - 1)} : f \in DOMAIN files}
    IN  [q \in DOMAIN files \cup dirs \cup {<<"G">>} |->
            IF q \in DOMAIN files THEN files[q] ELSE "dir"]

InitialTrees ==
    { Tree(EmptyMap),
      Tree(Put(EmptyMap, <<"G", "UserSkins", "camo", "old.dds">>, "old")),
      Tree(Put(Put(EmptyMap, <<"G", "UserSkins", "camo", "old.dds">>, "old"),
               <<"G", "UserSkins", ".__tmp_extract__camo", "s.dds">>, "stale")),
      Tree(Put(EmptyMap, <<"G", "UserSkins", "other", "o.dds">>, "old")) }

\* No SkinsManager call yet, on the tree of a game directory.
SkinsIdle ==
    /\ fs = Tree(EmptyMap)
    /\ _cache = NoCache
    /\ skins_call = NoSkinsCall

---------------------------------------------------------------------------
\* AppApi (main.py): the entry points guarded by _is_busy, the workers they
\* start, and the password exchange between a worker and the front end.

\* The threads the front end calls entry points from: pywebview runs each
\* call of the JS API on a thread of its own, and each dropped archive gets
\* a thread (line 2109).
Threads == {"t1", "t2"}

\* The guarded entry points: import_zips (import_selected_zip has the same
\* steps), import_skin_zip_from_path, install_mod, restore_game.
EntryPoints ==
    {"import_zips", "import_skin_zip_from_path", "install_mod", "restore_game"}

\* Python's None, next to the str values "" and "pw".
None == "None"

Passwords == {"", "pw"}

\* Password prompts one worker may make.
MaxPrompts == 1

\* Calls of submit/cancel the front end may make for one dialog.
MaxClicks == 2

NoEntryCall == [entry |-> "none", pc |-> "idle"]

NoWorker == [pc |-> "none", exc |-> "none", path |-> "none", asked |-> 0,
             waited |-> FALSE, got |-> None]

NoPrompt == [open |-> FALSE, by |-> "none", responses |-> <<>>]

\* AppApi.__init__ (lines 136-158), before any entry point is called.
ApiIdle ==
    /\ _window = TRUE
    /\ _is_busy = FALSE
    /\ _password_event = FALSE
    /\ _password_value = None
    /\ _password_cancelled = FALSE
    /\ calls = [t \in Threads |-> NoEntryCall]
    /\ workers = [t \in Threads |-> NoWorker]
    /\ prompt = NoPrompt

password_vars == <<_password_event, _password_value, _password_cancelled>>

\* The busy check an entry point opens with.  import_zips (855-857) and
\* import_skin_zip_from_path (1069-1071) read the flag and return when it is
\* set; install_mod (1264-1268) reads and sets it inside self._lock.
BusyCheck(t, e) ==
    /\ calls[t].pc = "idle"
    /\ IF _is_busy
       THEN /\ calls' = [calls EXCEPT ![t] = [entry |-> e, pc |-> "refused"]]
            /\ UNCHANGED _is_busy
       ELSE IF e = "install_mod"
       THEN /\ calls' = [calls EXCEPT ![t] = [entry |-> e, pc |-> "set"]]
            /\ _is_busy' = TRUE
       ELSE /\ calls' = [calls EXCEPT ![t] = [entry |-> e, pc |-> "passed"]]
            /\ UNCHANGED _is_busy
    /\ UNCHANGED <<_window, password_vars, workers, prompt>>
    /\ UNCHANGED <<manifest_vars, skins_vars>>

\* self._is_busy = True of the entry points that check outside the lock:
\* line 858; line 1080, after the game path is validated (1073-1077, return
\* False when it is invalid); line 1514 of restore_game, after the same
\* validation (1508-1512).
BusySet(t) ==
    /\ calls[t].pc = "passed"
    /\ \E valid \in IF calls[t].entry \in {"import_skin_zip_from_path",
                                            "restore_game"}
                    THEN BOOLEAN ELSE {TRUE} :
          IF valid
          THEN /\ _is_busy' = TRUE
               /\ calls' = [calls EXCEPT ![t].pc = "set"]
          ELSE /\ calls' = [calls EXCEPT ![t].pc = "invalid"]
               /\ UNCHANGED _is_busy
    /\ UNCHANGED <<_window, password_vars, workers, prompt>>
    /\ UNCHANGED <<manifest_vars, skins_vars>>

\* From the flag being set to t.start(): the import entry points call
\* evaluate_js when a window is bound (861-866, 1082-1086); install_mod
\* validates the game path, resetting the flag under the lock when it is
\* invalid (1270-1276), and calls set_current_mod (1279).  raises: that call
\* raises, and the entry point ends without starting its worker.
\* restore_game calls nothing between line 1514 and t.start() (1526-1528).
StartWorker(t) ==
    /\ calls[t].pc = "set"
    /\ \E valid \in IF calls[t].entry = "install_mod" THEN BOOLEAN ELSE {TRUE},
          raises \in IF \/ calls[t].entry = "install_mod"
                        \/ _window /\ calls[t].entry # "restore_game"
                     THEN BOOLEAN ELSE {FALSE} :
          IF ~valid
          THEN /\ _is_busy' = FALSE
               /\ calls' = [calls EXCEPT ![t].pc = "invalid"]
               /\ UNCHANGED workers
          ELSE IF raises
          THEN /\ calls' = [calls EXCEPT ![t].pc = "raised"]
               /\ UNCHANGED <<_is_busy, workers>>
          ELSE /\ calls' = [calls EXCEPT ![t].pc = "returned"]
               /\ workers' = [workers EXCEPT ![t].pc = "run"]
               /\ UNCHANGED _is_busy
    /\ UNCHANGED <<_window, password_vars, prompt>>
    /\ UNCHANGED <<manifest_vars, skins_vars>>

\* What the task of an entry point can end with: the library import raises
\* ArchivePasswordCanceled only when the password provider returned None
\* (see Answered); import_skin_zip raises FileExistsError or another
\* exception (skins_manager.py 158-277).
Outcomes(e) ==
    IF e = "import_skin_zip_from_path"
    THEN {"none", "FileExistsError", "Exception"}
    ELSE {"none", "Exception"}

\* The except clauses of _run, in their order: import_zips 886-898 (and
\* import_selected_zip 977-989), import_skin_zip_from_path 1099-1112,
\* install_mod 1297-1303.
handler_generic_first(e, exc) ==
    IF exc = "none" THEN "done" ELSE "failed"

handler(e, exc) ==
    IF exc = "none" THEN "done"
    ELSE IF e = "import_zips" /\ exc = "ArchivePasswordCanceled" THEN "cancelled"
    ELSE IF e = "import_skin_zip_from_path" /\ exc = "FileExistsError" THEN "exists"
    ELSE "failed"

\* The try block of _run up to its next blocking point.  The library import
\* of import_zips either meets an encrypted entry and calls the password
\* provider, which returns None at once when no window is bound (line
\* 816-817), or ends; the notifications after it (879-885) raise into the
\* same except clauses.
Run(t) ==
    /\ workers[t].pc = "run"
    /\ \/ /\ calls[t].entry = "import_zips"
          /\ workers[t].asked < MaxPrompts
          /\ workers' = [workers EXCEPT
                           ![t].asked = @ + 1,
                           ![t].waited = FALSE,
                           ![t].got = None,
                           ![t].pc = IF _window THEN "clear" ELSE "answered"]
       \/ \E exc \in Outcomes(calls[t].entry) :
             workers' = [workers EXCEPT ![t].exc = exc, ![t].pc = "handle"]
    /\ UNCHANGED <<_window, _is_busy, password_vars, calls, prompt>>
    /\ UNCHANGED <<manifest_vars, skins_vars>>

\* _request_archive_password, lines 818-821: under the lock, clear the
\* event and the previous answer.
RequestClear(t) ==
    /\ workers[t].pc = "clear"
    /\ _password_event' = FALSE
    /\ _password_value' = None
    /\ _password_cancelled' = FALSE
    /\ workers' = [workers EXCEPT ![t].pc = "open"]
    /\ UNCHANGED <<_window, _is_busy, calls, prompt>>
    /\ UNCHANGED <<manifest_vars, skins_vars>>

\* Lines 822-824: evaluate_js opens the dialog, or raises into the import.
RequestOpen(t) ==
    /\ workers[t].pc = "open"
    /\ \E raises \in BOOLEAN :
          IF raises
          THEN /\ workers' = [workers EXCEPT ![t].exc = "Exception",
                                             ![t].pc = "handle"]
               /\ UNCHANGED prompt
          ELSE /\ workers' = [workers EXCEPT ![t].pc = "wait"]
               /\ prompt' = [open |-> TRUE, by |-> t, responses |-> <<>>]
    /\ UNCHANGED <<_window, _is_busy, password_vars, calls>>
    /\ UNCHANGED <<manifest_vars, skins_vars>>

\* Line 825: self._password_event.wait() returns once the event is set.
RequestWait(t) ==
    /\ workers[t].pc = "wait"
    /\ _password_event
    /\ workers' = [workers EXCEPT ![t].pc = "read", ![t].waited = TRUE]
    /\ UNCHANGED <<_window, _is_busy, password_vars, calls, prompt>>
    /\ UNCHANGED <<manifest_vars, skins_vars>>

\* Lines 826-829: under the lock, None when cancelled, else the value.  The
\* dialog is over for the front end.
RequestRead(t) ==
    /\ workers[t].pc = "read"
    /\ workers' = [workers EXCEPT
                     ![t].got = IF _password_cancelled THEN None
                                ELSE _password_value,
                     ![t].pc = "answered"]
    /\ prompt' = [prompt EXCEPT !.open = FALSE]
    /\ UNCHANGED <<_window, _is_busy, password_vars, calls>>
    /\ UNCHANGED <<manifest_vars, skins_vars>>

\* submit_archive_password(password), lines 761-765, called by the open
\* dialog.
submit_archive_password(password) ==
    /\ prompt.open
    /\ Len(prompt.responses) < MaxClicks
    /\ _password_value' = IF password = None THEN "" ELSE password
    /\ _password_cancelled' = FALSE
    /\ _password_event' = TRUE
    /\ prompt' = [prompt EXCEPT
                    !.responses = Append(@, [kind |-> "submit",
                                             value |-> _password_value'])]
    /\ UNCHANGED <<_window, _is_busy, calls, workers>>
    /\ UNCHANGED <<manifest_vars, skins_vars>>

\* cancel_archive_password(), lines 785-789, called by the open dialog.
cancel_archive_password ==
    /\ prompt.open
    /\ Len(prompt.responses) < MaxClicks
    /\ _password_value' = None
    /\ _password_cancelled' = TRUE
    /\ _password_event' = TRUE
    /\ prompt' = [prompt EXCEPT
                    !.responses = Append(@, [kind |-> "cancel",
                                             value |-> None])]
    /\ UNCHANGED <<_window, _is_busy, calls, workers>>
    /\ UNCHANGED <<manifest_vars, skins_vars>>

\* The library import receives the provider's answer: None aborts it with
\* ArchivePasswordCanceled, a password lets it go on.
Answered(t) ==
    /\ workers[t].pc = "answered"
    /\ workers' = [workers EXCEPT
                     ![t].exc = IF workers[t].got = None
                                THEN "ArchivePasswordCanceled" ELSE @,
                     ![t].pc = IF workers[t].got = None
                               THEN "handle" ELSE "run"]
    /\ UNCHANGED <<_window, _is_busy, password_vars, calls, prompt>>
    /\ UNCHANGED <<manifest_vars, skins_vars>>

\* The except clause of _run that the exception selects.
Handle(t) ==
    /\ workers[t].pc = "handle"
    /\ workers' = [workers EXCEPT
                     ![t].path = handler(calls[t].entry, workers[t].exc),
                     ![t].pc = "finally"]
    /\ UNCHANGED <<_window, _is_busy, password_vars, calls, prompt>>
    /\ UNCHANGED <<manifest_vars, skins_vars>>

\* The finally clause of _run: self._is_busy = False (900, 991, 1114; under
\* the lock at 1305-1306), and the thread ends.
Finally(t) ==
    /\ workers[t].pc = "finally"
    /\ _is_busy' = FALSE
    /\ workers' = [workers EXCEPT ![t].pc = "finished"]
    /\ UNCHANGED <<_window, password_vars, calls, prompt>>
    /\ UNCHANGED <<manifest_vars, skins_vars>>

---------------------------------------------------------------------------
\* _load_manifest: the binding of self.manifest for the document found.
\* readOk = FALSE: open() raised (PermissionError or another exception).
_load_manifest(doc, readOk) ==
    IF doc.kind = "absent" THEN TemplateCopy
    ELSE IF ~readOk THEN TemplateCopy
    ELSE IF doc.kind \in {"partial", "garbage"} THEN TemplateCopy
    ELSE IF doc.kind = "nonobject" THEN TemplateCopy
    ELSE LET mk == IF doc.modsKind = "missing" THEN "obj" ELSE doc.modsKind
             fk == IF doc.mapKind = "missing" THEN "obj" ELSE doc.mapKind
         IN  \* line 88 takes len() of both values inside the try
             IF mk = "nolen" \/ fk = "nolen" THEN TemplateCopy
             ELSE [shared |-> FALSE, modsKind |-> mk, mapKind |-> fk,
                   installed_mods |-> doc.installed_mods,
                   file_map |-> doc.file_map]

\* __init__, lines 57-59: the instance bound to root r.
Instance(r, b) ==
    [live |-> TRUE, root |-> r, shared |-> b.shared,
     modsKind |-> b.modsKind, mapKind |-> b.mapKind,
     installed_mods |-> b.installed_mods, file_map |-> b.file_map]

\* open() is reached, and can fail, only when the file exists (line 69).
ReadOutcomes(doc) == IF doc.kind = "absent" THEN {TRUE} ELSE BOOLEAN

\* ManifestManager(game_root), replacing the instance the process holds.
Construct(r) ==
    /\ \E readOk \in ReadOutcomes(disk[r]) :
          /\ Spend(~readOk)
          /\ manager' = Instance(r, _load_manifest(disk[r], readOk))
          /\ last' = [NoCall EXCEPT !.op = "construct", !.root = r,
                                    !.pre = [NoPre EXCEPT !.disk = disk[r]],
                                    !.fault = IF readOk THEN "none" ELSE "read"]
    /\ UNCHANGED <<EMPTY_MANIFEST, disk, temp>>
    /\ UNCHANGED <<skins_vars, api_vars>>

---------------------------------------------------------------------------
\* A save that writes the manifest file itself instead of a temporary file.
_save_in_place(r, doc, how) ==
    [disk |-> CASE how \in {"ok", "crash_write"} -> [disk EXCEPT ![r] = doc]
                [] how = "open" -> disk
                [] how \in {"write", "crash_open", "rename"} ->
                       [disk EXCEPT ![r] = Partial],
     temp |-> temp,
     ret |-> CASE how = "ok" -> "true"
               [] how \in {"open", "write", "rename"} -> "false"
               [] OTHER -> "none"]

\* A save that unlinks the manifest file before renaming the temporary one.
_save_unlink_first(r, doc, how) ==
    [disk |-> CASE how = "ok" -> [disk EXCEPT ![r] = doc]
                [] how = "rename" -> [disk EXCEPT ![r] = Absent]
                [] OTHER -> disk,
     temp |-> CASE how = "ok" -> [temp EXCEPT ![r] = Absent]
                [] how = "open" -> temp
                [] how \in {"write", "crash_open"} ->
                       [temp EXCEPT ![r] = Partial]
                [] how \in {"rename", "crash_write"} ->
                       [temp EXCEPT ![r] = doc],
     ret |-> CASE how = "ok" -> "true"
               [] how \in {"open", "write", "rename"} -> "false"
               [] OTHER -> "none"]

\* _save_manifest, lines 108-130, writing document doc under root r.
\* how = "ok": every step succeeds.  "open", "write", "rename": that step
\* (mkdir and open(temp_file, 'w'); json.dump and close; replace) raises and
\* the except clauses return False.  "crash_open", "crash_write": the
\* process dies after that step.  open(..., 'w') creates or truncates the
\* temporary file; its text is complete only after the write step.
SaveOutcomes == {"ok", "open", "write", "rename", "crash_open", "crash_write"}

_save_manifest(r, doc, how) ==
    [disk |-> IF how = "ok" THEN [disk EXCEPT ![r] = doc] ELSE disk,
     temp |-> CASE how = "ok" -> [temp EXCEPT ![r] = Absent]
                [] how = "open" -> temp
                [] how \in {"write", "crash_open"} ->
                       [temp EXCEPT ![r] = Partial]
                [] how \in {"rename", "crash_write"} ->
                       [temp EXCEPT ![r] = doc],
     ret |-> CASE how = "ok" -> "true"
               [] how \in {"open", "write", "rename"} -> "false"
               [] OTHER -> "none"]

\* A call that mutated the manifest to (im, fm) and then saves it.
SaveAfter(op, p, F, im, fm, how) ==
    LET mf == Manifest
        s == _save_manifest(manager.root,
                            Doc("object", mf.modsKind, mf.mapKind, im, fm), how)
    IN  /\ Spend(how # "ok")
        /\ disk' = s.disk
        /\ temp' = s.temp
        /\ IF how \in {"crash_open", "crash_write"}
           THEN /\ ProcessDies
                /\ last' = Call("crash", p, F, "none", <<>>, how)
           ELSE /\ StoreManifest(im, fm)
                /\ last' = Call(op, p, F, s.ret, <<>>,
                                IF how = "ok" THEN "none" ELSE how)

---------------------------------------------------------------------------
\* check_conflicts without the test of line 149: every owned name is reported.
RECURSIVE check_conflicts_any_owner(_, _, _)
check_conflicts_any_owner(file_map, mod_name, files_to_install) ==
    IF files_to_install = <<>> THEN <<>>
    ELSE LET file_name == Head(files_to_install)
             rest == check_conflicts_any_owner(file_map, mod_name,
                                               Tail(files_to_install))
         IN  IF file_name \in DOMAIN file_map
             THEN <<[file |-> file_name,
                     existing_mod |-> file_map[file_name],
                     new_mod |-> mod_name]>> \o rest
             ELSE rest

\* check_conflicts, lines 143-159: one tuple per name owned by another mod.
RECURSIVE check_conflicts(_, _, _)
check_conflicts(file_map, mod_name, files_to_install) ==
    IF files_to_install = <<>> THEN <<>>
    ELSE LET file_name == Head(files_to_install)
             rest == check_conflicts(file_map, mod_name, Tail(files_to_install))
         IN  IF file_name \in DOMAIN file_map /\ file_map[file_name] # mod_name
             THEN <<[file |-> file_name,
                     existing_mod |-> file_map[file_name],
                     new_mod |-> mod_name]>> \o rest
             ELSE rest

\* manifest_mgr.check_conflicts(mod_name, files_to_install), lines 143-159.
\* The query changes nothing, so one step asks it for every mod and every
\* file list: res[<<p, G>>] is what check_conflicts(p, G) returns in this
\* state.  A file_map that is the empty list contains no name, so the loop
\* appends nothing.
CheckConflicts ==
    /\ manager.live
    /\ Spend(FALSE)
    /\ LET mf == Manifest
           res == [q \in Pkgs \X FileLists |->
                      IF mf.mapKind = "obj"
                      THEN check_conflicts(mf.file_map, q[1], q[2]) ELSE <<>>]
       IN  last' = Call("check", "none", <<>>, "none", res, "none")
    /\ UNCHANGED <<EMPTY_MANIFEST, manager, disk, temp>>
    /\ UNCHANGED <<skins_vars, api_vars>>

---------------------------------------------------------------------------
\* Lines 179-180 written with setdefault: an owned name keeps its owner.
RECURSIVE set_owner_if_free(_, _, _)
set_owner_if_free(file_map, mod_name, installed_files) ==
    IF installed_files = <<>> THEN file_map
    ELSE set_owner_if_free(IF Head(installed_files) \in DOMAIN file_map
                           THEN file_map
                           ELSE Put(file_map, Head(installed_files), mod_name),
                           mod_name, Tail(installed_files))

\* Lines 179-180: file_map[file_name] = mod_name for every installed file.
RECURSIVE set_owner(_, _, _)
set_owner(file_map, mod_name, installed_files) ==
    IF installed_files = <<>> THEN file_map
    ELSE set_owner(Put(file_map, Head(installed_files), mod_name),
                   mod_name, Tail(installed_files))

\* record_installation, lines 172-189.  Assigning by key into a value that
\* is not a dict raises TypeError, which line 187 catches: the call returns
\* False with what was assigned so far and saves nothing.
RecordInstallation(p, F) ==
    /\ manager.live
    /\ LET mf == Manifest IN
       IF mf.modsKind # "obj"
       THEN /\ Spend(FALSE)
            /\ last' = Call("record", p, F, "false", <<>>, "raise")
            /\ UNCHANGED <<EMPTY_MANIFEST, manager, disk, temp>>
       ELSE IF mf.mapKind # "obj" /\ F # <<>>
       THEN /\ Spend(FALSE)
            /\ StoreManifest(Put(mf.installed_mods, p, F), mf.file_map)
            /\ last' = Call("record", p, F, "false", <<>>, "raise")
            /\ UNCHANGED <<disk, temp>>
       ELSE \E how \in SaveOutcomes :
               SaveAfter("record", p, F, Put(mf.installed_mods, p, F),
                         IF mf.mapKind = "obj"
                         THEN set_owner(mf.file_map, p, F) ELSE mf.file_map,
                         how)
    /\ UNCHANGED <<skins_vars, api_vars>>

---------------------------------------------------------------------------
\* Lines 209-211 without the test of line 210: every listed name is dropped.
RECURSIVE drop_listed(_, _, _)
drop_listed(file_map, mod_name, files) ==
    IF files = <<>> THEN file_map
    ELSE drop_listed(Del(file_map, Head(files)), mod_name, Tail(files))

\* Lines 209-211 left out: file_map keeps every name.
drop_nothing(file_map, mod_name, files) == file_map

\* Lines 209-211: drop a name only while file_map still names this mod.
RECURSIVE drop_owned(_, _, _)
drop_owned(file_map, mod_name, files) ==
    IF files = <<>> THEN file_map
    ELSE drop_owned(IF Head(files) \in DOMAIN file_map
                       /\ file_map[Head(files)] = mod_name
                    THEN Del(file_map, Head(files)) ELSE file_map,
                    mod_name, Tail(files))

\* remove_mod_record, lines 201-222.  An installed_mods that is the empty
\* list contains no mod (line 201 returns True); .get on a file_map that is
\* a list raises AttributeError at the first file, before line 213.
\* RemoveModRecord with the same guard and the same bookkeeping, but without
\* the early return of lines 201-203: the record is always dropped and saved.
RemoveModRecord_saving(p) ==
    /\ manager.live
    /\ LET mf == Manifest IN
       \E how \in SaveOutcomes :
          SaveAfter("remove", p, <<>>, Del(mf.installed_mods, p),
                    mf.file_map, how)
    /\ UNCHANGED <<skins_vars, api_vars>>

RemoveModRecord(p) ==
    /\ manager.live
    /\ LET mf == Manifest IN
       IF mf.modsKind # "obj" \/ p \notin DOMAIN mf.installed_mods
       THEN /\ Spend(FALSE)
            /\ last' = Call("remove", p, <<>>, "true", <<>>, "none")
            /\ UNCHANGED <<EMPTY_MANIFEST, manager, disk, temp>>
       ELSE IF mf.mapKind # "obj" /\ mf.installed_mods[p] # <<>>
       THEN /\ Spend(FALSE)
            /\ last' = Call("remove", p, <<>>, "false", <<>>, "raise")
            /\ UNCHANGED <<EMPTY_MANIFEST, manager, disk, temp>>
       ELSE \E how \in SaveOutcomes :
               SaveAfter("remove", p, <<>>, Del(mf.installed_mods, p),
                         IF mf.mapKind = "obj"
                         THEN drop_owned(mf.file_map, p, mf.installed_mods[p])
                         ELSE mf.file_map,
                         how)
    /\ UNCHANGED <<skins_vars, api_vars>>

---------------------------------------------------------------------------
\* clear_manifest, lines 231-245.
ClearManifest ==
    /\ manager.live
    /\ manager' = Instance(manager.root, TemplateCopy)
    /\ LET r == manager.root IN
       \E unlinkOk \in ReadOutcomes(disk[r]) :
          /\ Spend(~unlinkOk)
          /\ disk' = IF unlinkOk THEN [disk EXCEPT ![r] = Absent] ELSE disk
          /\ last' = Call("clear", "none", <<>>,
                          IF unlinkOk THEN "true" ELSE "false", <<>>,
                          IF unlinkOk THEN "none" ELSE "unlink")
    /\ UNCHANGED <<EMPTY_MANIFEST, temp>>
    /\ UNCHANGED <<skins_vars, api_vars>>

\* The process dies between two calls.
Crash ==
    /\ Spend(FALSE)
    /\ ProcessDies
    /\ last' = [NoCall EXCEPT !.op = "crash"]
    /\ UNCHANGED <<disk, temp>>
    /\ UNCHANGED <<skins_vars, api_vars>>

---------------------------------------------------------------------------
\* A fresh process that has constructed its manager on root r1, where no
\* document has been persisted yet.
Init ==
    /\ EMPTY_MANIFEST = [installed_mods |-> EmptyMap, file_map |-> EmptyMap]
    /\ disk = [r \in Roots |-> Absent]
    /\ temp = [r \in Roots |-> Absent]
    /\ manager = Instance("r1", _load_manifest(disk["r1"], TRUE))
    /\ ops = 0
    /\ last = [NoCall EXCEPT !.op = "construct", !.root = "r1"]
    /\ SkinsIdle
    /\ ApiIdle

\* A fresh process that has constructed its manager on root r1, which holds
\* a corrupt or incomplete document written by something else.
InitCorrupt ==
    /\ EMPTY_MANIFEST = [installed_mods |-> EmptyMap, file_map |-> EmptyMap]
    /\ disk \in {[r \in Roots |-> IF r = "r1" THEN d ELSE Absent] :
                    d \in CorruptDocs \cup IncompleteDocs}
    /\ temp = [r \in Roots |-> Absent]
    /\ \E readOk \in BOOLEAN :
          /\ manager = Instance("r1", _load_manifest(disk["r1"], readOk))
          /\ last = [NoCall EXCEPT !.op = "construct", !.root = "r1",
                                   !.pre = [NoPre EXCEPT !.disk = disk["r1"]],
                                   !.fault = IF readOk THEN "none" ELSE "read"]
    /\ ops = 0
    /\ SkinsIdle
    /\ ApiIdle

Next ==
    \/ \E r \in Roots : Construct(r)
    \/ CheckConflicts
    \/ \E p \in Pkgs, F \in FileLists : RecordInstallation(p, F)
    \/ \E p \in Pkgs : RemoveModRecord(p)
    \/ ClearManifest
    \/ Crash

Spec == Init /\ [][Next]_vars

SpecCorrupt == InitCorrupt /\ [][Next]_vars

\* A SkinsManager of a fresh process (line 60) on one of the trees; the
\* manifest manager is constructed and left alone.
InitImport ==
    /\ EMPTY_MANIFEST = [installed_mods |-> EmptyMap, file_map |-> EmptyMap]
    /\ disk = [r \in Roots |-> Absent]
    /\ temp = [r \in Roots |-> Absent]
    /\ manager = Instance("r1", _load_manifest(disk["r1"], TRUE))
    /\ ops = 0
    /\ last = [NoCall EXCEPT !.op = "construct", !.root = "r1"]
    /\ fs \in InitialTrees
    /\ _cache = NoCache
    /\ skins_call = NoSkinsCall
    /\ ApiIdle

NextImport ==
    \/ ImportSkinZip
    \/ ScanUserskins

SpecImport == InitImport /\ [][NextImport]_vars

---------------------------------------------------------------------------
\* _move_tree on its own: one call, on a tree with a source side /G/S and a
\* destination side /G/D.
SrcRoot == <<"G", "S">>

DstRoot == <<"G", "D">>

SrcFiles ==
    {SrcRoot \o <<"a">>, SrcRoot \o <<"d", "a">>, SrcRoot \o <<"d", "c">>}

DstFiles ==
    {DstRoot \o <<"a">>, DstRoot \o <<"a", "z">>, DstRoot \o <<"d", "a">>,
     DstRoot \o <<"d", "e">>}

\* The trees a call can find: any files on either side, tagged with the
\* side they are on; /G/S is a directory, /G/D is one or is missing.
MoveTrees ==
    {LET t == Mkdirs(Tree([q \in sf \cup df |->
                              IF q \in sf THEN "src" ELSE "dst"]),
                     SrcRoot).fs
     IN  IF made THEN Mkdirs(t, DstRoot).fs ELSE t :
        sf \in SUBSET SrcFiles,
        df \in {F \in SUBSET DstFiles :
                   \A x, y \in F : x # y => ~IsPrefix(x, y)},
        made \in BOOLEAN}

\* The dst arguments: the destination root, existing and missing names in
\* it, and a name below a missing directory.
MoveTargets ==
    {DstRoot, DstRoot \o <<"a">>, DstRoot \o <<"d">>,
     DstRoot \o <<"d", "a">>, DstRoot \o <<"n">>, DstRoot \o <<"n", "m">>}

NoMoveCall ==
    [op |-> "none", src |-> <<>>, dst |-> <<>>, bad |-> {}, raised |-> FALSE,
     pre |-> [fs |-> <<>>]]

\* self._move_tree(src, dst) for a source on the source side.  bad: the
\* path, if any, that shutil.move refuses to move.
MoveTree ==
    /\ skins_call.op = "none"
    /\ \E src \in {q \in DOMAIN fs : IsPrefix(SrcRoot, q)},
          dst \in MoveTargets :
          \E bad \in {{}} \cup {{q} : q \in {x \in DOMAIN fs :
                                                IsPrefix(src, x)}} :
             \E r \in {_move_tree(fs, src, dst, bad)} :
                /\ fs' = r.fs
                /\ skins_call' = [NoMoveCall EXCEPT
                                    !.op = "move", !.src = src, !.dst = dst,
                                    !.bad = bad, !.raised = r.raised,
                                    !.pre = [fs |-> fs]]
    /\ UNCHANGED <<manifest_vars, _cache, api_vars>>

InitMove ==
    /\ EMPTY_MANIFEST = [installed_mods |-> EmptyMap, file_map |-> EmptyMap]
    /\ disk = [r \in Roots |-> Absent]
    /\ temp = [r \in Roots |-> Absent]
    /\ manager = Instance("r1", _load_manifest(disk["r1"], TRUE))
    /\ ops = 0
    /\ last = [NoCall EXCEPT !.op = "construct", !.root = "r1"]
    /\ fs \in MoveTrees
    /\ _cache = NoCache
    /\ skins_call = NoMoveCall
    /\ ApiIdle

NextMove == MoveTree

SpecMove == InitMove /\ [][NextMove]_vars

---------------------------------------------------------------------------
\* The names of archive entries (skins_manager.py 552-559).  A name is held
\* as the sequence of its code points, the bytes of a stored name as a
\* sequence of numbers in 0..255.

\* The bytes names are made of: 'a', and the bytes of U+00E9 and U+4E2D in
\* cp437 (82), UTF-8 (C3 A9; E4 B8 AD) and GBK (D6 D0).
NameBytes == {97, 130, 173, 169, 184, 195, 208, 214, 228}

MaxName == 3

RawNames == UNION {[1..n -> NameBytes] : n \in 1..MaxName}

\* Python's cp437 codec on these bytes, and on A1, the byte of U+00ED, which
\* the UTF-8 sequence C3 AD stands for: <<byte, code point>>.
cp437 ==
    {<<97, 97>>,
     <<130, 233>>,
     <<161, 237>>,
     <<173, 161>>,
     <<169, 8976>>,
     <<184, 9557>>,
     <<195, 9500>>,
     <<208, 9576>>,
     <<214, 9555>>,
     <<228, 931>>}

\* Python's gbk codec on the two-byte sequences over the bytes of cp437
\* above that it accepts: <<lead byte, trail byte, code point>>.
gbk ==
    {<<130, 97, 20443>>, <<130, 130, 20496>>, <<130, 161, 20546>>,
     <<130, 173, 20564>>, <<130, 169, 20560>>, <<130, 184, 20578>>,
     <<130, 195, 20591>>, <<130, 208, 20610>>, <<130, 214, 20618>>,
     <<130, 228, 20633>>, <<161, 161, 12288>>, <<161, 173, 8230>>,
     <<161, 169, 12293>>, <<161, 184, 12300>>, <<161, 195, 8758>>,
     <<161, 208, 8978>>, <<161, 214, 8776>>, <<161, 228, 8242>>,
     <<173, 97, 29862>>, <<173, 130, 29898>>, <<169, 97, 12443>>,
     <<169, 130, 65124>>, <<169, 173, 9481>>, <<169, 169, 9477>>,
     <<169, 184, 9492>>, <<169, 195, 9503>>, <<169, 208, 9516>>,
     <<169, 214, 9522>>, <<169, 228, 9536>>, <<184, 97, 31436>>,
     <<184, 130, 31478>>, <<184, 161, 28014>>, <<184, 173, 33105>>,
     <<184, 169, 20463>>, <<184, 184, 29238>>, <<184, 195, 35813>>,
     <<184, 208, 24863>>, <<184, 214, 38050>>, <<184, 228, 38224>>,
     <<195, 97, 32970>>, <<195, 130, 33047>>, <<195, 161, 35881>>,
     <<195, 173, 38086>>, <<195, 169, 33541>>, <<195, 184, 37238>>,
     <<195, 195, 22969>>, <<195, 208, 30511>>, <<195, 214, 24357>>,
     <<195, 228, 23081>>, <<208, 97, 34891>>, <<208, 130, 34944>>,
     <<208, 161, 23567>>, <<208, 173, 21327>>, <<208, 169, 20123>>,
     <<208, 184, 25032>>, <<208, 195, 24571>>, <<208, 208, 34892>>,
     <<208, 214, 20804>>, <<208, 228, 34966>>, <<214, 97, 35589>>,
     <<214, 130, 35623>>, <<214, 161, 24103>>, <<214, 173, 27713>>,
     <<214, 169, 34584>>, <<214, 184, 25351>>, <<214, 195, 32622>>,
     <<214, 208, 20013>>, <<214, 214, 31181>>, <<214, 228, 21650>>,
     <<228, 97, 37579>>, <<228, 130, 37611>>, <<228, 161, 27961>>,
     <<228, 173, 27957>>, <<228, 169, 27918>>, <<228, 184, 28051>>,
     <<228, 195, 28095>>, <<228, 208, 28267>>, <<228, 214, 28210>>,
     <<228, 228, 28375>>}

\* bytes.decode("cp437"): every byte has a character.
cp437_decode(bs) ==
    [i \in DOMAIN bs |-> (CHOOSE e \in cp437 : e[1] = bs[i])[2]]

\* str.encode("cp437"): UnicodeEncodeError when a character has no byte.
cp437_encode(s) ==
    IF \A i \in DOMAIN s : \E e \in cp437 : e[2] = s[i]
    THEN [ok |-> TRUE,
          bytes |-> [i \in DOMAIN s |-> (CHOOSE e \in cp437 : e[2] = s[i])[1]]]
    ELSE [ok |-> FALSE, bytes |-> <<>>]

Continuation(b) == b \in 128..191

\* The length of the UTF-8 sequence that starts bs, 0 when bs starts with no
\* well-formed sequence (overlong forms and surrogates are ill-formed).
utf8_width(bs) ==
    LET b == bs[1] IN
    IF b < 128 THEN 1
    ELSE IF b \in 194..223 /\ Len(bs) >= 2 /\ Continuation(bs[2]) THEN 2
    ELSE IF /\ b \in 224..239 /\ Len(bs) >= 3
            /\ Continuation(bs[2]) /\ Continuation(bs[3])
            /\ b = 224 => bs[2] >= 160
            /\ b = 237 => bs[2] <= 159
    THEN 3
    ELSE IF /\ b \in 240..244 /\ Len(bs) >= 4
            /\ Continuation(bs[2]) /\ Continuation(bs[3])
            /\ Continuation(bs[4])
            /\ b = 240 => bs[2] >= 144
            /\ b = 244 => bs[2] <= 143
    THEN 4
    ELSE 0

utf8_point(bs, w) ==
    CASE w = 1 -> bs[1]
      [] w = 2 -> (bs[1] - 192) * 64 + (bs[2] - 128)
      [] w = 3 -> (bs[1] - 224) * 4096 + (bs[2] - 128) * 64 + (bs[3] - 128)
      [] w = 4 -> (bs[1] - 240) * 262144 + (bs[2] - 128) * 4096
                     + (bs[3] - 128) * 64 + (bs[4] - 128)

RECURSIVE utf8_decode(_)
\* bytes.decode("utf-8"): strict, UnicodeDecodeError on any ill-formed part.
utf8_decode(bs) ==
    IF bs = <<>> THEN [ok |-> TRUE, text |-> <<>>]
    ELSE LET w == utf8_width(bs) IN
         IF w = 0 THEN [ok |-> FALSE, text |-> <<>>]
         ELSE LET rest == utf8_decode(SubSeq(bs, w + 1, Len(bs))) IN
              [ok |-> rest.ok,
               text |-> IF rest.ok THEN <<utf8_point(bs, w)>> \o rest.text
                        ELSE <<>>]

RECURSIVE gbk_decode(_)
\* bytes.decode("gbk"): strict; a byte below 80 is ASCII, any other byte
\* leads a two-byte character.
gbk_decode(bs) ==
    IF bs = <<>> THEN [ok |-> TRUE, text |-> <<>>]
    ELSE IF bs[1] < 128
    THEN LET rest == gbk_decode(Tail(bs)) IN
         [ok |-> rest.ok,
          text |-> IF rest.ok THEN <<bs[1]>> \o rest.text ELSE <<>>]
    ELSE IF Len(bs) >= 2 /\ \E e \in gbk : e[1] = bs[1] /\ e[2] = bs[2]
    THEN LET rest == gbk_decode(SubSeq(bs, 3, Len(bs)))
             c == (CHOOSE e \in gbk : e[1] = bs[1] /\ e[2] = bs[2])[3]
         IN  [ok |-> rest.ok,
              text |-> IF rest.ok THEN <<c>> \o rest.text ELSE <<>>]
    ELSE [ok |-> FALSE, text |-> <<>>]

\* ZipInfo.filename as zipfile reads it: the raw bytes decoded as UTF-8 when
\* the entry has the language encoding flag (bit 11), as cp437 otherwise.
stored_filename(flag, raw) ==
    IF flag THEN utf8_decode(raw).text ELSE cp437_decode(raw)

\* Lines 553-559: the name the entry is extracted under, and the step of the
\* chain that gave it.
decode_filename(stored) ==
    LET bytes == cp437_encode(stored) IN
    IF bytes.ok /\ utf8_decode(bytes.bytes).ok
    THEN [step |-> 1, filename |-> utf8_decode(bytes.bytes).text]
    ELSE IF bytes.ok /\ gbk_decode(bytes.bytes).ok
    THEN [step |-> 2, filename |-> gbk_decode(bytes.bytes).text]
    ELSE [step |-> 3, filename |-> stored]

\* An archive entry before its name is decoded.
ArchiveEntry(flag, raw) ==
    [op |-> "entry", flag |-> flag, raw |-> raw,
     stored |-> stored_filename(flag, raw), step |-> 0, filename |-> <<>>]

\* The entries an archive can hold: a flagged name is well-formed UTF-8.
ArchiveEntries ==
    {ArchiveEntry(FALSE, raw) : raw \in RawNames}
       \cup {ArchiveEntry(TRUE, raw) : raw \in {r \in RawNames : utf8_decode(r).ok}}

\* One pass of the loop of _extract_zip_safely over the entry, up to line
\* 559.
DecodeFilename ==
    /\ skins_call.op = "entry"
    /\ skins_call.step = 0
    /\ \E r \in {decode_filename(skins_call.stored)} :
          skins_call' = [skins_call EXCEPT !.step = r.step,
                                           !.filename = r.filename]
    /\ UNCHANGED <<fs, _cache, manifest_vars, api_vars>>

InitDecode ==
    /\ EMPTY_MANIFEST = [installed_mods |-> EmptyMap, file_map |-> EmptyMap]
    /\ disk = [r \in Roots |-> Absent]
    /\ temp = [r \in Roots |-> Absent]
    /\ manager = Instance("r1", _load_manifest(disk["r1"], TRUE))
    /\ ops = 0
    /\ last = [NoCall EXCEPT !.op = "construct", !.root = "r1"]
    /\ fs = Tree(EmptyMap)
    /\ _cache = NoCache
    /\ skins_call \in ArchiveEntries
    /\ ApiIdle

NextDecode == DecodeFilename

SpecDecode == InitDecode /\ [][NextDecode]_vars

---------------------------------------------------------------------------
\* AppApi after construction, with or without a window bound, next to the
\* managers of a fresh process.
InitApi ==
    /\ EMPTY_MANIFEST = [installed_mods |-> EmptyMap, file_map |-> EmptyMap]
    /\ disk = [r \in Roots |-> Absent]
    /\ temp = [r \in Roots |-> Absent]
    /\ manager = Instance("r1", _load_manifest(disk["r1"], TRUE))
    /\ ops = 0
    /\ last = [NoCall EXCEPT !.op = "construct", !.root = "r1"]
    /\ SkinsIdle
    /\ _window \in BOOLEAN
    /\ _is_busy = FALSE
    /\ _password_event = FALSE
    /\ _password_value = None
    /\ _password_cancelled = FALSE
    /\ calls = [t \in Threads |-> NoEntryCall]
    /\ workers = [t \in Threads |-> NoWorker]
    /\ prompt = NoPrompt

NextApi ==
    \/ \E t \in Threads, e \in EntryPoints : BusyCheck(t, e)
    \/ \E t \in Threads : BusySet(t)
    \/ \E t \in Threads : StartWorker(t)
    \/ \E t \in Threads : Run(t)
    \/ \E t \in Threads : RequestClear(t)
    \/ \E t \in Threads : RequestOpen(t)
    \/ \E t \in Threads : RequestWait(t)
    \/ \E t \in Threads : RequestRead(t)
    \/ \E password \in Passwords \cup {None} : submit_archive_password(password)
    \/ cancel_archive_password
    \/ \E t \in Threads : Answered(t)
    \/ \E t \in Threads : Handle(t)
    \/ \E t \in Threads : Finally(t)

SpecApi == InitApi /\ [][NextApi]_vars

\* The threads of the process are scheduled: an entry point that has passed
\* its busy check goes on, and a started worker takes its next step when it
\* can.  When the front end calls an entry point, and whether the user ever
\* answers the dialog, is left open.
FairApi ==
    /\ SpecApi
    /\ \A t \in Threads :
          /\ WF_vars(BusySet(t)) /\ WF_vars(StartWorker(t))
          /\ WF_vars(Run(t)) /\ WF_vars(RequestClear(t))
          /\ WF_vars(RequestOpen(t)) /\ WF_vars(RequestWait(t))
          /\ WF_vars(RequestRead(t)) /\ WF_vars(Answered(t))
          /\ WF_vars(Handle(t)) /\ WF_vars(Finally(t))

---------------------------------------------------------------------------
\* The manifest manager and the skin import in one process: at most one
\* call of the manifest manager, then one import.

\* The archives imported: one that imports, one with a disallowed member,
\* a damaged one, a missing one.
LedgerZips ==
    {ZipFile(TRUE, ".zip", FALSE, <<Member(<<"w", "a.dds">>, FALSE, FALSE)>>),
     ZipFile(TRUE, ".zip", FALSE, <<Member(<<"w", "x.exe">>, FALSE, FALSE)>>),
     ZipFile(TRUE, ".zip", TRUE, <<>>),
     ZipFile(FALSE, ".zip", FALSE, <<>>)}

ManifestCall ==
    /\ skins_call.op = "none"
    /\ ops = 0
    /\ Next

NextLedger ==
    \/ ManifestCall
    \/ Import(LedgerZips)

SpecLedger == Init /\ [][NextLedger]_vars

---------------------------------------------------------------------------
\* Properties of the manifest.

\* The latest call returned to its caller (the process did not die in it).
Returned == last.ret \in {"true", "false"}

\* The owner file_map d gives to name k, or "absent".
Entry(d, k) == IF k \in DOMAIN d THEN d[k] ELSE "absent"

\* Dicts d and e agree on every key of the set keys.
SameOn(d, e, keys) ==
    \A k \in keys : (k \in DOMAIN d <=> k \in DOMAIN e)
                    /\ (k \in DOMAIN d => d[k] = e[k])

\* The names of G, in the order of G, that file_map gives to another mod
\* than p, each as a conflict tuple.
ConflictTuples(file_map, p, G) ==
    LET Foreign(g) == g \in DOMAIN file_map /\ file_map[g] # p
        hit == SelectSeq(G, Foreign)
    IN  [i \in 1..Len(hit) |->
            [file |-> hit[i], existing_mod |-> file_map[hit[i]], new_mod |-> p]]

\* C1: check_conflicts(p, G) returns exactly one tuple {file, existing_mod,
\* new_mod} per name of G, in G's order, that file_map gives to another mod
\* than p, so [] when there is none and never p against itself; and after
\* record_installation(A, F) check_conflicts(B, [b]) is exactly [{b, A, B}]
\* for every b of F and every other mod B.
C1_CheckConflictsExact ==
    last.op = "check" =>
        /\ \A q \in Pkgs \X FileLists :
              last.res[q] = ConflictTuples(last.pre.file_map, q[1], q[2])
        /\ last.prior.op = "record" =>
              \A B \in Pkgs \ {last.prior.p}, b \in Range(last.prior.F) :
                 last.res[<<B, <<b>>>>] =
                    <<[file |-> b, existing_mod |-> last.prior.p, new_mod |-> B]>>

\* record_installation(A, [a, b]) and then check_conflicts: B on [b] is told
\* of A, A on its own [a, b] of nothing.
C1_Witness ==
    /\ last.op = "check"
    /\ last.prior.op = "record" /\ last.prior.p = "A"
    /\ last.prior.F = <<"a", "b">>
    /\ last.res[<<"B", <<"b">>>>] =
          <<[file |-> "b", existing_mod |-> "A", new_mod |-> "B"]>>
    /\ last.res[<<"A", <<"a", "b">>>>] = <<>>

\* C2: after record_installation(p, F), installed_mods[p].files is F, every
\* name of F belongs to p whoever owned it before, and every other name's
\* file_map entry and every other mod's installed_mods entry is as before.
C2_RecordInstallationEffect ==
    (last.op = "record" /\ Returned) =>
        LET mf == Manifest IN
        /\ last.p \in DOMAIN mf.installed_mods
        /\ mf.installed_mods[last.p] = last.F
        /\ \A f \in Range(last.F) : Entry(mf.file_map, f) = last.p
        /\ SameOn(mf.file_map, last.pre.file_map, Files \ Range(last.F))
        /\ SameOn(mf.installed_mods, last.pre.installed_mods, Pkgs \ {last.p})

\* A record_installation that took a name from another mod and left another
\* owned name alone.
C2_Witness ==
    /\ last.op = "record" /\ Returned
    /\ \E f \in Range(last.F) :
          Entry(last.pre.file_map, f) \in Pkgs \ {last.p}
    /\ \E g \in Files \ Range(last.F) : g \in DOMAIN last.pre.file_map

\* C3: remove_mod_record(p) deletes from file_map only names listed under p
\* and still owned by p, leaves every entry of another owner (and every
\* entry it keeps) as it was, leaves every other mod's installed_mods entry
\* as it was, and leaves p out of installed_mods.
C3_RemoveModRecordFrame ==
    (last.op = "remove" /\ Returned) =>
        LET mf == Manifest
            before == last.pre
        IN  /\ DOMAIN mf.file_map \subseteq DOMAIN before.file_map
            /\ \A f \in DOMAIN before.file_map :
                  IF f \in DOMAIN mf.file_map
                  THEN mf.file_map[f] = before.file_map[f]
                  ELSE /\ before.file_map[f] = last.p
                       /\ last.p \in DOMAIN before.installed_mods
                       /\ f \in Range(before.installed_mods[last.p])
            /\ SameOn(mf.installed_mods, before.installed_mods,
                      Pkgs \ {last.p})
            /\ last.p \notin DOMAIN mf.installed_mods

\* A remove_mod_record(p) that deleted a name of p and kept a name p lists
\* but a newer mod owns.
C3_Witness ==
    /\ last.op = "remove" /\ Returned
    /\ last.p \in DOMAIN last.pre.installed_mods
    /\ \E f \in Range(last.pre.installed_mods[last.p]) :
          /\ Entry(last.pre.file_map, f) \in Pkgs \ {last.p}
          /\ Entry(Manifest.file_map, f) = last.pre.file_map[f]
    /\ \E f \in DOMAIN last.pre.file_map : f \notin DOMAIN Manifest.file_map

\* C4: record_installation(p, F) directly followed by remove_mod_record(p)
\* leaves no name of F in file_map, and leaves every other mod's
\* installed_mods entry, and every file_map entry of another owner for a
\* name outside F, as it was before the two calls.
C4_RecordThenRemove ==
    (last.op = "remove" /\ Returned /\ last.prior.op = "record") =>
        LET mf == Manifest
            before == last.prior.pre
            F == Range(last.prior.F)
        IN  /\ \A f \in F : f \notin DOMAIN mf.file_map
            /\ SameOn(mf.installed_mods, before.installed_mods,
                      Pkgs \ {last.p})
            /\ \A f \in DOMAIN before.file_map \ F :
                  before.file_map[f] # last.p =>
                     Entry(mf.file_map, f) = before.file_map[f]

\* record_installation(p, F), F not empty, then remove_mod_record(p), with
\* another mod installed and owning a name outside F.
C4_Witness ==
    /\ last.op = "remove" /\ Returned /\ last.prior.op = "record"
    /\ last.prior.F # <<>>
    /\ \E q \in Pkgs \ {last.p} : q \in DOMAIN last.prior.pre.installed_mods
    /\ \E f \in Files \ Range(last.prior.F) :
          Entry(last.prior.pre.file_map, f) \in Pkgs \ {last.p}

\* Mod p lists name f in manifest mf.
ListedIn(mf, p, f) ==
    /\ p \in DOMAIN mf.installed_mods
    /\ f \in Range(mf.installed_mods[p])

\* Mod p lists name f in mf and mf's file_map gives f to p.
OwnedIn(mf, p, f) == ListedIn(mf, p, f) /\ Entry(mf.file_map, f) = p

\* Mod p lists name f in the manifest of the live manager.
Listed(p, f) == manager.live /\ ListedIn(Manifest, p, f)

\* C5 as claimed: every name a live mod p lists is in file_map, either for p
\* or for another live mod that lists it too; it is never absent.
C5_ListedNameHasLiveOwner ==
    \A p \in Pkgs, f \in Files :
        Listed(p, f) =>
            \/ Entry(Manifest.file_map, f) = p
            \/ /\ Entry(Manifest.file_map, f) \in Pkgs
               /\ Listed(Manifest.file_map[f], f)

\* C5, amended: record_installation(p, F) gives every name of F to p, and a
\* name p lists and owns stays p's across every record_installation,
\* remove_mod_record and check_conflicts after which p still lists it,
\* unless that call is a record_installation of another mod listing the name
\* (after such a transfer the name may stay with the newer mod even when that
\* mod no longer lists it, or be absent once that mod was removed).
C5_OwnedUntilTransferred ==
    [][ LET now == Manifest
            next == Manifest'
            call == last'
        IN  /\ (call.op = "record" /\ call.ret \in {"true", "false"}) =>
                  \A f \in Range(call.F) : OwnedIn(next, call.p, f)
            /\ \A p \in Pkgs, f \in Files :
                  ( /\ OwnedIn(now, p, f)
                    /\ ListedIn(next, p, f)
                    /\ call.op \in {"record", "remove", "check"}
                    /\ ~(call.op = "record" /\ call.p # p
                         /\ f \in Range(call.F)) )
                  => OwnedIn(next, p, f)
      ]_vars

\* A name a live mod lists is absent from file_map: the mod that took it
\* over was removed.
C5_Witness ==
    /\ last.op = "remove" /\ Returned
    /\ \E p \in Pkgs, f \in Files :
          /\ Listed(p, f)
          /\ Entry(last.pre.file_map, f) = last.p
          /\ f \notin DOMAIN Manifest.file_map

\* C6: a manager constructed for a root without a persisted document has an
\* empty installed_mods and an empty file_map, whatever earlier instances of
\* the process did.
C6_NoDocumentLoadsEmpty ==
    (last.op = "construct" /\ last.pre.disk.kind = "absent") =>
        /\ Manifest.installed_mods = EmptyMap
        /\ Manifest.file_map = EmptyMap

\* C7: after clear_manifest both maps are empty in memory, the document is
\* gone unless unlinking it failed, the call returns True when there was no
\* document, and check_conflicts returns [] for every mod and file list.
C7_ClearLeavesEmpty ==
    last.op = "clear" =>
        /\ Manifest.installed_mods = EmptyMap
        /\ Manifest.file_map = EmptyMap
        /\ last.fault # "unlink" => disk[last.root].kind = "absent"
        /\ last.pre.disk.kind = "absent" => last.ret = "true"
        /\ \A q \in Pkgs \X FileLists :
              check_conflicts(Manifest.file_map, q[1], q[2]) = <<>>

\* The latest call reached _save_manifest (and maybe died in it).
Saved ==
    \/ last.op \in {"record", "remove"}
    \/ last.op = "crash" /\ last.fault \in {"crash_open", "crash_write"}

\* C8: whatever step of a save fails or is cut short by a crash, the
\* document at the manifest path is never a partly written one: it is the
\* document (or the absence) from before the call, or the complete new one.
C8_DocumentOldOrNew ==
    /\ \A r \in Roots : disk[r].kind \in {"absent", "object"}
    /\ Saved =>
          \/ disk[last.root] = last.pre.disk
          \/ /\ last.ret = "true"
             /\ disk[last.root] =
                   Doc("object", "obj", "obj",
                       Manifest.installed_mods, Manifest.file_map)

\* The process died after opening the temporary file, which is left partly
\* written, while an earlier document is in place.
C8_Witness ==
    /\ last.op = "crash" /\ last.fault = "crash_open"
    /\ temp[last.root].kind = "partial"
    /\ disk[last.root].kind = "object"
    /\ disk[last.root] = last.pre.disk

\* C9: a corrupt document (unparseable, a non-object top level, or a key
\* whose value is not an object) loads as an empty well-formed manifest, and
\* the record_installation that follows returns True (no I/O step failing)
\* and leaves a document with both keys holding objects.
C9_CorruptLoadsEmpty ==
    /\ (last.op = "construct" /\ last.pre.disk \in CorruptDocs) =>
          /\ Manifest.modsKind = "obj" /\ Manifest.mapKind = "obj"
          /\ Manifest.installed_mods = EmptyMap
          /\ Manifest.file_map = EmptyMap
    /\ ( /\ last.op = "record"
         /\ last.prior.op = "construct"
         /\ last.prior.pre.disk \in CorruptDocs
         /\ last.fault \notin {"open", "write", "rename"} ) =>
          /\ last.ret = "true"
          /\ disk[last.root].kind = "object"
          /\ disk[last.root].modsKind = "obj"
          /\ disk[last.root].mapKind = "obj"

\* C10: when a step of the save fails in record_installation or
\* remove_mod_record, the call returns False, the manifest in memory holds
\* the whole update, and the persisted document is as before the call.
C10_PersistFailureKeepsUpdate ==
    (last.op \in {"record", "remove"}
     /\ last.fault \in {"open", "write", "rename"}) =>
        LET mf == Manifest IN
        /\ manager.live
        /\ last.ret = "false"
        /\ disk[last.root] = last.pre.disk
        /\ IF last.op = "record"
           THEN /\ last.p \in DOMAIN mf.installed_mods
                /\ mf.installed_mods[last.p] = last.F
                /\ \A f \in Range(last.F) : Entry(mf.file_map, f) = last.p
           ELSE /\ last.p \notin DOMAIN mf.installed_mods
                /\ \A f \in Range(last.pre.installed_mods[last.p]) :
                      Entry(mf.file_map, f) # last.p

\* A record_installation whose rename failed over an existing document, and
\* a remove_mod_record of an installed mod is covered by the same formula.
C10_Witness ==
    /\ last.op = "record" /\ last.fault = "rename"
    /\ last.pre.disk.kind = "object"
    /\ Manifest.installed_mods # last.pre.installed_mods
    /\ temp[last.root].kind = "object"

\* C33: every file_map entry f -> p names a live package that lists f: p is
\* a key of installed_mods and f is in installed_mods[p].files; after
\* remove_mod_record(p) no file_map entry has owner p, also when p had been
\* re-recorded with a shorter file list before.
C33_EveryOwnerLiveAndListing ==
    LET mf == Manifest IN
    manager.live /\ mf.modsKind = "obj" /\ mf.mapKind = "obj" =>
       /\ \A f \in DOMAIN mf.file_map :
             /\ mf.file_map[f] \in DOMAIN mf.installed_mods
             /\ f \in Range(mf.installed_mods[mf.file_map[f]])
       /\ last.op = "remove" /\ last.fault # "raise" =>
             \A f \in DOMAIN mf.file_map : mf.file_map[f] # last.p

\* The persisted document under the root of the last call holds the maps
\* the manager holds in memory.
DiskEqualsMemory ==
    /\ disk[last.root].installed_mods = Manifest.installed_mods
    /\ disk[last.root].file_map = Manifest.file_map

\* C34: after every record_installation or remove_mod_record call that
\* returns true the persisted installed_mods and file_map equal the ones in
\* memory, updates of earlier calls whose save failed included; and after
\* every clear_manifest call that returns true the document is absent and
\* both maps in memory are empty.
C34_TrueMeansPersisted ==
    manager.live =>
       /\ last.op \in {"record", "remove"} /\ last.ret = "true" =>
             DiskEqualsMemory
       /\ last.op = "clear" /\ last.ret = "true" =>
             /\ disk[last.root].kind = "absent"
             /\ Manifest.installed_mods = EmptyMap
             /\ Manifest.file_map = EmptyMap

\* C40: remove_mod_record(p) for a name p that is not a key of
\* installed_mods returns true and changes nothing: the manifest in memory,
\* the persisted document and the temporary file are what they were.
C40_RemoveUnknownIsNoOp ==
    [][(/\ manager.live
        /\ ops' # ops
        /\ last'.op = "remove"
        /\ Manifest.modsKind = "obj"
        /\ last'.p \notin DOMAIN Manifest.installed_mods)
       => /\ last'.ret = "true"
          /\ UNCHANGED <<EMPTY_MANIFEST, manager, disk, temp>>]_vars

\* An unknown name removed while another package is recorded and an earlier
\* save left its temporary file behind.
C40_Witness ==
    /\ last.op = "remove" /\ last.ret = "true"
    /\ last.p \notin DOMAIN last.pre.installed_mods
    /\ last.pre.installed_mods # EmptyMap
    /\ temp[last.root].kind = "object"
    /\ disk[last.root].installed_mods # Manifest.installed_mods

---------------------------------------------------------------------------
\* Properties of the import.

\* The latest SkinsManager call was an import_skin_zip call.
Imported == skins_call.op = "import"

\* No step of the import failed by itself.
Undisturbed == skins_call.fault.kind \in {"none", "no_callback"}

\* The package directory and the staging directory of the imported archive.
Package == target_dir(skins_call.zip)

Staging == tmp_dir(skins_call.zip)

\* Where member m of the imported archive would land under the staging root.
Landing(m) == full_target_path(Staging, m)

\* Member i's destination is not inside the staging root.
Escapes(i) == ~IsPrefix(Staging, Landing(skins_call.zip.members[i]))

\* Member i is one the extraction takes for noise.
Noise(i) ==
    LET m == skins_call.zip.members[i]
    IN  has_macosx(filename(m)) \/ has_desktop_ini(filename(m))

\* The paths the import added to tree t, and those it removed or rewrote.
Added(t) == DOMAIN t \ DOMAIN skins_call.pre.fs

Touched(t) ==
    {q \in DOMAIN skins_call.pre.fs :
        q \notin DOMAIN t \/ t[q] # skins_call.pre.fs[q]}

\* The tree the import left, and the tree its extraction left when it ran.
Trees ==
    {fs} \cup (IF skins_call.extracted = <<>> THEN {}
               ELSE {skins_call.extracted})

\* C11: an archive member whose resolved destination is not inside the
\* staging root is never created or written anywhere (whatever the import
\* adds or changes lies in the package or the staging directory, during
\* extraction and at the end), the import does not fail because of it (an
\* import in which no step fails and which the checks before staging let
\* through returns ok), and every later member with a destination inside the
\* staging root is still extracted.
C11_EscapingMembersSkipped ==
    Imported =>
       \A i \in DOMAIN skins_call.zip.members :
          Escapes(i) =>
             /\ \A t \in Trees :
                   /\ Landing(skins_call.zip.members[i]) \notin Added(t)
                   /\ \A q \in Added(t) \cup Touched(t) :
                         \/ q = userskins_dir
                         \/ IsPrefix(Package, q)
                         \/ IsPrefix(Staging, q)
             /\ skins_call.staged /\ Undisturbed => skins_call.ret = "ok"
             /\ skins_call.staged /\ Undisturbed =>
                   \A j \in DOMAIN skins_call.zip.members :
                      LET m == skins_call.zip.members[j]
                      IN  j > i /\ ~Escapes(j) /\ ~Noise(j) =>
                             /\ Landing(m) \in DOMAIN skins_call.extracted
                             /\ skins_call.extracted[Landing(m)] =
                                   IF m.dir THEN "dir" ELSE "new"

\* An import that skipped a member aimed at another package's file and
\* extracted the member after it, with that file left as it was.
C11_Witness ==
    /\ Imported /\ skins_call.ret = "ok"
    /\ Len(skins_call.zip.members) = 2
    /\ Escapes(1) /\ ~Escapes(2) /\ ~Noise(2)
    /\ Landing(skins_call.zip.members[1]) \in DOMAIN skins_call.pre.fs
    /\ Landing(skins_call.zip.members[2]) \in DOMAIN skins_call.extracted
    /\ Children(fs, Package) # {}

\* C12: on every exit path of import_skin_zip reached after the staging
\* directory was created, the staging directory no longer exists when the
\* call returns or raises.
C12_StagingRemoved ==
    Imported /\ skins_call.staged => ~Exists(fs, Staging)

\* Member i is a file whose extension is not empty and not in the allowlist.
Disallowed(i) ==
    LET m == skins_call.zip.members[i]
        ext == lower(suffix(m.name[Len(m.name)]))
    IN  ~m.dir /\ ext # "" /\ ext \notin ALLOWED_EXTENSIONS

\* C13: an archive holding, anywhere, a file member whose extension is not
\* empty and not one of .dds, .blk, .tga is rejected as a whole with a
\* validation error before anything is written: the tree is as it was (no
\* destination root, staging or package directory made, nothing removed).
C13_DisallowedExtensionRejected ==
    Imported /\ (\E i \in DOMAIN skins_call.zip.members : Disallowed(i)) =>
       /\ skins_call.ret = "ValueError"
       /\ fs = skins_call.pre.fs

\* C14: when the archive path does not exist or its extension is not .zip
\* in any letter case, import_skin_zip fails with a validation error and
\* changes nothing: the tree and the manager's cache are as before.  An
\* existing archive named .ZIP is not refused.
C14_InvalidPathNoSideEffects ==
    Imported =>
       /\ ~skins_call.zip.exists
             \/ skins_call.zip.suffix \notin {".zip", ".ZIP"} =>
             /\ skins_call.ret = "ValueError"
             /\ ~skins_call.staged
             /\ fs = skins_call.pre.fs
             /\ _cache = skins_call.pre.cache
       /\ skins_call.zip.exists /\ skins_call.zip.suffix = ".ZIP" =>
             skins_call.ret # "ValueError"

\* A .rar file refused by a manager that holds the listing of a scan, in a
\* tree with a package: the listing and the tree are kept.
C14_Witness ==
    /\ Imported /\ skins_call.zip.exists /\ skins_call.zip.suffix = ".rar"
    /\ skins_call.ret = "ValueError"
    /\ _cache.set /\ _cache.items # {}
    /\ Exists(fs, Package)

\* Path q, below the package directory, is one the members of the imported
\* archive name, with or without their top-level directory.
NamedByArchive(q) ==
    LET rel == SubSeq(q, Len(Package) + 1, Len(q))
    IN  \E i \in DOMAIN skins_call.zip.members :
           LET name == filename(skins_call.zip.members[i])
           IN  IsPrefix(rel, name) \/ IsPrefix(rel, Tail(name))

\* What is in the package directory came out of the imported archive.
OnlyNewContent ==
    \A q \in DOMAIN fs :
       IsPrefix(Package, q) /\ q # Package =>
          /\ fs[q] \in {"dir", "new"}
          /\ NamedByArchive(q)

\* C15: when the package directory named after the archive exists already
\* and the archive passes validation: with overwrite = false the import
\* fails with FileExistsError, leaves the tree as it was and makes no
\* staging directory; with overwrite = true the directory is removed first,
\* so that after a successful import the package directory holds only
\* content of the new archive.
C15_ExistingPackage ==
    /\ Imported /\ Exists(skins_call.pre.fs, Package)
    /\ skins_call.ret # "ValueError" /\ skins_call.fault.kind # "mkdir_root"
    => /\ ~skins_call.overwrite =>
             /\ skins_call.ret = "FileExistsError"
             /\ fs = skins_call.pre.fs
             /\ ~skins_call.staged
       /\ skins_call.overwrite /\ skins_call.ret = "ok" => OnlyNewContent

\* The import came as far as the disk-space check: the archive was valid,
\* UserSkins could be made, and an existing package directory was removed
\* on request.
ReachedSpaceCheck ==
    /\ Imported
    /\ skins_call.ret \notin {"ValueError", "FileExistsError"}
    /\ skins_call.fault.kind \notin {"mkdir_root", "rmtree_target"}

\* C16: when the free-space query succeeds and free space is below
\* archive size x 3 x 2, import_skin_zip fails with DiskSpaceError before any
\* extraction: no staging directory is made, no member is written and the
\* package directory is not created; with free space equal to or above the
\* requirement the check passes.
C16_InsufficientSpaceStopsImport ==
    ReachedSpaceCheck /\ skins_call.fault.kind # "disk_query" =>
       IF skins_call.space.free < skins_call.space.zip_size * 3 * 2
       THEN /\ skins_call.ret = "DiskSpaceError"
            /\ ~skins_call.staged
            /\ skins_call.extracted = <<>>
            /\ Added(fs) \subseteq {userskins_dir}
            /\ ~Exists(fs, Package)
       ELSE skins_call.ret # "DiskSpaceError"

\* An import of a two-byte archive stopped with one byte missing of the
\* twelve required, after UserSkins was made and before any staging.
C16_Witness ==
    /\ Imported /\ skins_call.ret = "DiskSpaceError"
    /\ skins_call.space.free = 11 /\ skins_call.space.zip_size = 2
    /\ skins_call.zip.members # <<>>
    /\ ~Exists(fs, userskins_dir \o <<".__tmp_extract__camo">>)
    /\ ~Exists(skins_call.pre.fs, userskins_dir)
    /\ Exists(fs, userskins_dir)

\* The same import with no failing step and exactly the space required.
WithEnoughSpace ==
    import_skin_zip(skins_call.pre.fs, skins_call.pre.cache, skins_call.zip,
                    skins_call.overwrite, NoFault,
                    [skins_call.space EXCEPT
                        !.free = skins_call.space.zip_size * 3 * 2],
                    skins_call.space.clock)

\* C17: when the query for the archive size or the free space fails with a
\* platform error, the disk-space check passes: the import never ends with
\* DiskSpaceError and goes on to staging and extraction exactly as the same
\* import with enough space does, whatever the free space is.
C17_SpaceQueryFailureIsPassed ==
    Imported /\ skins_call.fault.kind = "disk_query" =>
       /\ skins_call.ret # "DiskSpaceError"
       /\ skins_call.ret = WithEnoughSpace.ret
       /\ skins_call.staged = WithEnoughSpace.staged
       /\ skins_call.extracted = WithEnoughSpace.extracted
       /\ skins_call.progress = WithEnoughSpace.progress
       /\ fs = WithEnoughSpace.fs
       /\ _cache = WithEnoughSpace.cache

\* An import completed on a volume with too little space, because the
\* query failed.
C17_Witness ==
    /\ Imported /\ skins_call.fault.kind = "disk_query"
    /\ skins_call.space.free < skins_call.space.zip_size * 3 * 2
    /\ skins_call.ret = "ok" /\ skins_call.staged
    /\ \E q \in DOMAIN fs : IsPrefix(Package, q) /\ fs[q] = "new"

\* The top-level entries of the staging directory after extraction, less
\* the noise entries __MACOSX and desktop.ini.
StagedTop ==
    {q \in Children(skins_call.extracted, Staging) :
        q[Len(q)] \notin {"__MACOSX", "desktop.ini"}}

\* Tree t below directory p, as a map from the paths relative to p.
Below(t, p) ==
    [rel \in {SubSeq(q, Len(p) + 1, Len(q)) :
                 q \in {x \in DOMAIN t : IsPrefix(p, x) /\ x # p}} |->
        t[p \o rel]]

\* The staging directory is flattened: one top-level entry, a directory.
Wrapped ==
    /\ Cardinality(StagedTop) = 1
    /\ \A q \in StagedTop : IsDir(skins_call.extracted, q)

\* C18: after extraction, leaving aside the noise entries __MACOSX and
\* desktop.ini, when the staging directory has exactly one top-level entry
\* and it is a directory, the package directory of a completed import holds
\* exactly that directory's children (and what is below them); otherwise it
\* holds exactly the staging top-level entries under their own names (and
\* what is below them).  No staging directory is left.
C18_LayoutReconciled ==
    Imported /\ skins_call.ret = "ok" =>
       /\ IsDir(fs, Package)
       /\ IF Wrapped
          THEN \A w \in StagedTop :
                  Below(fs, Package) = Below(skins_call.extracted, w)
          ELSE Below(fs, Package) =
                  [rel \in {r \in DOMAIN Below(skins_call.extracted, Staging) :
                               Head(r) \notin {"__MACOSX", "desktop.ini"}} |->
                      Below(skins_call.extracted, Staging)[rel]]
       /\ ~Exists(fs, Staging)

\* The checks of the first two stages, as the claims state them: the archive
\* is there, is named .zip, opens, and holds no file member with an
\* extension outside the allowlist other than the exempted noise names;
\* the space query failed or found the required space.
ValidationSucceeded ==
    LET zip == skins_call.zip
    IN  /\ zip.exists /\ zip.suffix \in {".zip", ".ZIP"} /\ ~zip.bad
        /\ \A i \in DOMAIN zip.members :
              Disallowed(i) =>
                 \/ has_macosx(zip.members[i].name)
                 \/ has_desktop_ini_lower(zip.members[i].name)

SpaceCheckFailed ==
    /\ skins_call.fault.kind # "disk_query"
    /\ skins_call.space.free < skins_call.space.zip_size * 3 * 2

\* Some member was written in part only: the extraction ended in an error.
ExtractionFailed ==
    \E q \in DOMAIN skins_call.extracted : skins_call.extracted[q] = "part"

\* The stages of the latest import and the last of them.
Stages == skins_call.stages

Entered(stage) == \E i \in DOMAIN Stages : Stages[i] = stage

\* C21: one import goes through Validating, SpaceChecking, Extracting,
\* Reconciling, Done in that order, without skipping or reordering; no member
\* is extracted unless validation succeeded and the space check did not
\* fail; reconciliation starts only after an extraction without fatal
\* error; ok is returned only after reconciliation and after the staging
\* directory was removed; a failure in any stage ends the import as failed,
\* with no later stage run.
C21_StagesInOrder ==
    Imported =>
       /\ Stages \in {<<"Validating", "Failed">>,
                      <<"Validating", "SpaceChecking", "Failed">>,
                      <<"Validating", "SpaceChecking", "Extracting",
                        "Failed">>,
                      <<"Validating", "SpaceChecking", "Extracting",
                        "Reconciling", "Failed">>,
                      <<"Validating", "SpaceChecking", "Extracting",
                        "Reconciling", "Done">>}
       /\ Entered("Extracting") <=> skins_call.extracted # <<>>
       /\ Entered("Extracting") => ValidationSucceeded /\ ~SpaceCheckFailed
       /\ ~ValidationSucceeded => ~Entered("SpaceChecking")
       /\ Entered("Reconciling") => ~ExtractionFailed
       /\ ~Entered("Reconciling") =>
             \A q \in Added(fs) : ~IsPrefix(Package, q)
       /\ ExtractionFailed => Stages[Len(Stages)] = "Failed"
       /\ skins_call.ret = "ok" <=> Entered("Done")
       /\ skins_call.ret = "ok" =>
             Entered("Reconciling") /\ ~Exists(fs, Staging)

\* scan_userskins was called right after an import that returned ok.
ScannedAfterImport == skins_call.op = "rescan" /\ skins_call.after = "ok"

\* C25: a successful import leaves no cached listing, and the scan that
\* follows it, with or without force_refresh, reads the directory: its
\* result is the listing of the tree as it is, and names the package.
C25_ScanAfterImportIsFresh ==
    /\ (Imported /\ skins_call.ret = "ok") => _cache = NoCache
    /\ ScannedAfterImport =>
          /\ skins_call.pre.cache = NoCache
          /\ skins_call.listing = Listing(fs)
          /\ _cache = Listing(fs)
          /\ Package[Len(Package)] \in skins_call.listing.items

\* A scan without force_refresh after a successful import that added the
\* package next to another one.
C25_Witness ==
    /\ ScannedAfterImport
    /\ ~skins_call.force
    /\ skins_call.listing.items = {"camo", "other"}

\* The reports _extract_zip_safely made, each with the member it was at.
ExtractionReports ==
    {k \in DOMAIN skins_call.progress :
        skins_call.progress[k].site \in {"entry", "chunk"}}

\* C26: directory members are created in staging and never reported: every
\* progress report of _extract_zip_safely is made for a file member.
C26_DirectoriesNotReported ==
    Imported =>
       \A k \in ExtractionReports :
          ~skins_call.zip.members[skins_call.progress[k].at].dir

\* C27: every percentage the import passes to the progress callback is an
\* integer from 0 to 100, and the last one of an import that returns ok is
\* 100.
C27_PercentagesInRange ==
    Imported =>
       /\ \A k \in DOMAIN skins_call.progress :
             skins_call.progress[k].pct \in 0..100
       /\ (skins_call.ret = "ok" /\ skins_call.fault.kind # "no_callback")
             => /\ skins_call.progress # <<>>
                /\ skins_call.progress[Len(skins_call.progress)].pct = 100

\* The package directories scan_userskins would list before the import.
PackagesBefore ==
    {d \in Children(skins_call.pre.fs, userskins_dir) :
        IsDir(skins_call.pre.fs, d)}

\* Nothing at or below d differs between the tree before the import and
\* the tree now.
Untouched(d) ==
    \A q \in DOMAIN fs \cup DOMAIN skins_call.pre.fs :
       IsPrefix(d, q) =>
          /\ Exists(fs, q) /\ Exists(skins_call.pre.fs, q)
          /\ fs[q] = skins_call.pre.fs[q]

\* C28: the staging directory of an import is neither its package
\* directory nor any package directory present before it, so that making
\* and removing staging changes no package other than the imported one.
C28_StagingApartFromPackages ==
    Imported =>
       /\ Staging # Package
       /\ \A d \in PackagesBefore :
             /\ d # Staging
             /\ d # Package => Untouched(d)

\* C30: when the import fails, for whatever reason and whatever overwrite
\* is, a package directory of the same name that existed before the call
\* still exists with its contents as they were.
C30_FailureKeepsPackage ==
    (Imported /\ skins_call.ret # "ok" /\ IsDir(skins_call.pre.fs, Package))
       => Untouched(Package)

\* The files the import wrote into the tree t, below the staging directory
\* or the package directory.
Written(t) ==
    {q \in DOMAIN t :
        /\ t[q] \in {"new", "part"}
        /\ IsPrefix(Staging, q) \/ IsPrefix(Package, q)}

\* The pre-scan of import_skin_zip leaves the member aside before it looks
\* at the extension.
Exempted(i) ==
    LET m == skins_call.zip.members[i]
    IN  has_macosx(m.name) \/ has_desktop_ini_lower(m.name)

\* C31: import_skin_zip writes no file with a non-empty extension other
\* than .dds, .blk, .tga, neither into the staging directory nor into the
\* final package directory, and every member the pre-scan exempts is one the
\* extraction skips.
C31_OnlyAllowedExtensionsWritten ==
    Imported =>
       /\ \A t \in Trees : \A q \in Written(t) :
             lower(suffix(q[Len(q)])) \in ALLOWED_EXTENSIONS \cup {""}
       /\ \A i \in DOMAIN skins_call.zip.members : Exempted(i) => Noise(i)

\* The files the extraction left in staging, by their path relative to the
\* staging directory, outside the top-level noise entries.
StagedFiles ==
    IF skins_call.extracted = <<>> THEN {}
    ELSE {rel \in DOMAIN Below(skins_call.extracted, Staging) :
             /\ Below(skins_call.extracted, Staging)[rel] # "dir"
             /\ Head(rel) \notin {"__MACOSX", "desktop.ini"}}

\* The staged file is in the package directory, at its relative path or at
\* that path without the single wrapping directory.
InPackage(rel) ==
    \/ Package \o rel \in DOMAIN fs /\ fs[Package \o rel] # "dir"
    \/ /\ Len(rel) > 1
       /\ Package \o Tail(rel) \in DOMAIN fs
       /\ fs[Package \o Tail(rel)] # "dir"

\* C32: import_skin_zip returns ok only if every file extracted into
\* staging, outside the noise entries, is in the final package directory; a
\* failure to move a staged file or directory into place makes the import
\* fail.
C32_OkMeansEverythingMoved ==
    Imported /\ skins_call.ret = "ok" =>
       \A rel \in StagedFiles : InPackage(rel)

\* C36: a scan_userskins call without force_refresh returns the package
\* directories the destination tree holds, also after an import_skin_zip
\* that changed the tree and failed: no listed package is gone, no added
\* one is missing.
C36_ScanNeverStale ==
    skins_call.op \in {"scan", "rescan"} /\ ~skins_call.force =>
       skins_call.listing.items = Listing(fs).items

\* C38: the percentages one import_skin_zip run reports to the progress
\* callback never decrease, over the per-entry reports and the per-chunk
\* reports together.
C38_PercentagesNonDecreasing ==
    Imported =>
       \A j, k \in DOMAIN skins_call.progress :
          j < k => skins_call.progress[j].pct <= skins_call.progress[k].pct

\* The same import with a progress callback that does not raise.
WithQuietCallback ==
    import_skin_zip(skins_call.pre.fs, skins_call.pre.cache, skins_call.zip,
                    skins_call.overwrite, NoFault, skins_call.space,
                    skins_call.space.clock)

\* C20: an exception raised by the progress callback at any of its call
\* sites (the 'preparing' report, the reports per member and per chunk, the
\* 'reconciled' report, the final 100% report) is swallowed: the import
\* ends as it ends with a callback that does not raise, with the same
\* result, the same files in place and the same cache invalidation.
C20_CallbackErrorsSwallowed ==
    /\ Imported
    /\ skins_call.fault.kind \in {"cb_prepare", "cb_entry", "cb_chunk",
                                  "cb_reconciled", "cb_done"}
    => /\ skins_call.ret = WithQuietCallback.ret
       /\ fs = WithQuietCallback.fs
       /\ _cache = WithQuietCallback.cache

---------------------------------------------------------------------------
\* Properties of _move_tree.

\* The latest call was a _move_tree call in which no OSError occurred.
MovedCleanly == skins_call.op = "move" /\ ~skins_call.raised

\* The tree before the call.
Before == skins_call.pre.fs

\* The union of two trees, the second winning where both have a name.
Merged(d, s2) ==
    [rel \in DOMAIN d \cup DOMAIN s2 |->
        IF rel \in DOMAIN s2 THEN s2[rel] ELSE d[rel]]

\* C19: _move_tree(src, dst), when no I/O error occurs: a directory moved
\* onto an existing directory leaves in the destination the union of both
\* trees, the source winning on files of the same name, and the source
\* directory is gone; a file moved onto an existing file replaces it with
\* the source content; a source moved to a destination that does not exist
\* is relocated with everything below it; and no file of the source tree is
\* lost.
C19_MoveTreeMerges ==
    MovedCleanly =>
       LET src == skins_call.src
           dst == skins_call.dst
       IN  /\ IsDir(Before, src) /\ IsDir(Before, dst) =>
                 /\ ~Exists(fs, src)
                 /\ Below(fs, dst) =
                       Merged(Below(Before, dst), Below(Before, src))
           /\ ~IsDir(Before, src) /\ Exists(Before, dst)
                 /\ ~IsDir(Before, dst) =>
                 /\ ~Exists(fs, src)
                 /\ Exists(fs, dst) /\ fs[dst] = Before[src]
           /\ ~Exists(Before, dst) =>
                 /\ ~Exists(fs, src)
                 /\ Exists(fs, dst) /\ fs[dst] = Before[src]
                 /\ Below(fs, dst) = Below(Before, src)
           /\ \A q \in DOMAIN Before :
                 IsPrefix(src, q) /\ Before[q] # "dir" =>
                    LET to == dst \o SubSeq(q, Len(src) + 1, Len(q))
                    IN  to \in DOMAIN fs /\ fs[to] = Before[q]

\* A directory merged into an existing one: a file of the same name on both
\* sides now holds the source content, beside a file only the destination
\* had and a file only the source had.
C19_Witness ==
    /\ MovedCleanly
    /\ skins_call.src = SrcRoot \o <<"d">>
    /\ skins_call.dst = DstRoot \o <<"d">>
    /\ Exists(Before, DstRoot \o <<"d", "a">>)
    /\ Before[DstRoot \o <<"d", "a">>] = "dst"
    /\ Below(fs, DstRoot \o <<"d">>) =
          [rel \in {<<"a">>, <<"c">>, <<"e">>} |->
              IF rel = <<"e">> THEN "dst" ELSE "src"]
    /\ ~Exists(fs, SrcRoot \o <<"d">>)
---------------------------------------------------------------------------
\* Properties of the import next to the manifest manager.

\* This step is a call of import_skin_zip.
ImportStep == skins_call'.op = "import" /\ skins_call.op # "import"

---------------------------------------------------------------------------
\* Properties of AppApi.

\* The workers that have started and not ended.
Running == {t \in Threads : workers[t].pc \notin {"none", "finished"}}

\* C22: at most one background task runs at any time: of the entry points
\* guarded by _is_busy that are called concurrently, at most one passes the
\* busy check and starts its worker.
C22_AtMostOneWorker ==
    Cardinality(Running) <= 1

\* The calls the front end made for the dialog that worker t opened.
Responses(t) == IF prompt.by = t THEN prompt.responses ELSE <<>>

CancelInvoked(t) ==
    \E i \in DOMAIN Responses(t) : Responses(t)[i].kind = "cancel"

\* The provider has returned to the import of worker t.
ProviderReturned(t) == workers[t].pc = "answered"

\* C23: _request_archive_password returns None without blocking when no
\* window is bound; otherwise it returns only after the user has responded
\* to its dialog, None when cancel_archive_password was invoked for it, and
\* else the submitted string ("" for a None submission).
C23_ProviderReturnsResponse ==
    \A t \in Threads :
       ProviderReturned(t) =>
          IF ~_window
          THEN workers[t].got = None /\ ~workers[t].waited
          ELSE /\ workers[t].waited
               /\ prompt.by = t =>
                     /\ Responses(t) # <<>>
                     /\ IF CancelInvoked(t)
                        THEN workers[t].got = None
                        ELSE workers[t].got =
                                Responses(t)[Len(Responses(t))].value

\* Worker t has left the try block of _run through an except clause or
\* without an exception.
Handled(t) == workers[t].pc \in {"finally", "finished"}

\* C29: a worker whose import ended with ArchivePasswordCanceled, which is
\* raised only when the password provider returned None, takes the
\* cancelled path and never the failed one; the failed path is taken for
\* other exceptions only; and in both cases the worker ends.
C29_CancelledNotFailed ==
    /\ [](\A t \in Threads :
            Handled(t) =>
               /\ workers[t].exc = "ArchivePasswordCanceled"
                     <=> workers[t].path = "cancelled"
               /\ workers[t].path = "cancelled" => workers[t].got = None
               /\ workers[t].path = "failed" => workers[t].exc = "Exception")
    /\ \A t \in Threads :
          (workers[t].pc = "handle" /\ workers[t].exc # "none")
             ~> (workers[t].pc = "finished" /\ ~(workers[t].path = "done"))

\* The user cancelled the dialog of a worker, which ended on the cancelled
\* path.
C29_Witness ==
    \E t \in Threads :
       /\ workers[t].pc = "finished"
       /\ workers[t].path = "cancelled"
       /\ workers[t].waited
       /\ CancelInvoked(t)

\* The call of thread t has ended and no worker of it is running.
Settled(t) ==
    /\ calls[t].pc \in {"idle", "refused", "invalid", "raised", "returned"}
    /\ workers[t].pc \in {"none", "finished"}

\* C35: _is_busy does not stay true: once every entry point call has ended
\* and every worker has finished (successfully, with an error, cancelled at
\* the password prompt) or was never started because the entry point raised
\* after setting the flag, the flag is false.
C35_NeverLeftBusy ==
    (\A t \in Threads : Settled(t)) => ~_is_busy

\* No other thread's worker has asked for a password: the prompt, the event
\* and the stored answer are used by the worker of t alone.
LoneAsker(t) == \A u \in Threads \ {t} : workers[u].asked = 0

\* C37: once cancel_archive_password was invoked for a pending prompt the
\* provider returns None for it, also when submit_archive_password arrives
\* after the cancel and before the waiting worker reads the answer.
C37_CancelIsFinal ==
    \A t \in Threads :
       (/\ ProviderReturned(t)
        /\ LoneAsker(t)
        /\ prompt.by = t
        /\ CancelInvoked(t))
       => workers[t].got = None

---------------------------------------------------------------------------
\* Properties of the entry names.

Decoded == skins_call.op = "entry" /\ skins_call.step # 0

\* C39: the name of an entry is its raw bytes decoded as UTF-8 when that
\* succeeds, otherwise its raw bytes decoded as GBK when that succeeds,
\* otherwise the stored name; a name whose raw bytes are UTF-8 is never
\* decoded as GBK, and a name the archive stores as Unicode (language
\* encoding flag set) comes out unchanged.
C39_FirstDecodingWins ==
    Decoded =>
       LET raw == skins_call.raw IN
       /\ skins_call.filename =
             IF utf8_decode(raw).ok THEN utf8_decode(raw).text
             ELSE IF gbk_decode(raw).ok THEN gbk_decode(raw).text
             ELSE skins_call.stored
       /\ utf8_decode(raw).ok => skins_call.step # 2
       /\ skins_call.flag => skins_call.filename = skins_call.stored

====
